---- MODULE Spec2Model ----
(***************************************************************************)
(* Model of python/ocr.py: the OCR job service.                            *)
(*                                                                         *)
(* Threads.  Every `async def` endpoint (img_ocr, img_ocr_async,           *)
(* get_job_status, delete_job) runs on the one event-loop thread of the    *)
(* single uvicorn process (ocr.py:850); none of them awaits, so a handler  *)
(* runs to its end before the loop serves the next request.  Each accepted *)
(* job gets its own threading.Thread running process_ocr_job (ocr.py:768). *)
(* Thread 0 is the event loop, thread j >= 1 is the runner of job j.       *)
(*                                                                         *)
(* Text.  A text is a sequence of one-character strings.  The page-break   *)
(* marker '--- Page Break ---' is written as the single character "|".     *)
(* Logging (safe_print) is taken not to raise.                             *)
(***************************************************************************)
EXTENDS Integers, Sequences, FiniteSets, TLC

\* ------------------------------------------------------------------ bounds
MaxJobs == 2
MaxImages == 2
MaxSync == 1
MaxFaults == 3
MaxPages == 3

\* ------------------------------------------------------- program constants
max_retries == 2

\* the length under which a combined text is logged as very short (ocr.py:541)
MinTextLength == 50

Loop == 0
NoThread == -1

JOB_STATUS_PENDING == "pending"
JOB_STATUS_PROCESSING == "processing"
JOB_STATUS_COMPLETED == "completed"
JOB_STATUS_FAILED == "failed"

None == <<>>
Some(x) == <<x>>

\* ------------------------------------------------------------ text helpers
Upper == {"A", "B"}
Lower == {"a", "b"}
Digit == {"1", "2", "3", "4"}
PageBreakMark == "|"

IsSpace(c) == c \in {" ", "\n"}
IsWordChar(c) == c \in Upper \cup Lower \cup Digit

ToLower(c) == IF c = "A" THEN "a" ELSE IF c = "B" THEN "b" ELSE c
LowerCase(s) == [i \in 1..Len(s) |-> ToLower(s[i])]

RECURSIVE LStrip(_)
LStrip(s) == IF s # <<>> /\ IsSpace(Head(s)) THEN LStrip(Tail(s)) ELSE s

RECURSIVE RStrip(_)
RStrip(s) ==
    IF s # <<>> /\ IsSpace(s[Len(s)]) THEN RStrip(SubSeq(s, 1, Len(s) - 1)) ELSE s

\* str.strip()
Strip(s) == RStrip(LStrip(s))

\* str.startswith(p)
StartsWith(s, p) == Len(p) <= Len(s) /\ SubSeq(s, 1, Len(p)) = p

\* index of the first c in s, or Len(s) + 1
RECURSIVE FirstIndex(_, _, _)
FirstIndex(s, c, i) ==
    IF i > Len(s) \/ s[i] = c THEN i ELSE FirstIndex(s, c, i + 1)

\* str.split(c): the segments between the occurrences of c
RECURSIVE SplitOn(_, _)
SplitOn(s, c) ==
    LET i == FirstIndex(s, c, 1) IN
    IF i > Len(s) THEN <<s>>
    ELSE <<SubSeq(s, 1, i - 1)>> \o SplitOn(SubSeq(s, i + 1, Len(s)), c)

\* length of the leading run of non-space characters
RECURSIVE WordLen(_, _)
WordLen(s, i) == IF i > Len(s) \/ IsSpace(s[i]) THEN i - 1 ELSE WordLen(s, i + 1)

\* str.split(): the maximal runs of non-space characters
RECURSIVE Words(_)
Words(s) ==
    LET t == LStrip(s) IN
    IF t = <<>> THEN <<>>
    ELSE LET n == WordLen(t, 1) IN
         <<SubSeq(t, 1, n)>> \o Words(SubSeq(t, n + 1, Len(t)))

\* sep.join(parts)
RECURSIVE Join(_, _)
Join(parts, sep) ==
    IF parts = <<>> THEN <<>>
    ELSE IF Len(parts) = 1 THEN parts[1]
    ELSE parts[1] \o sep \o Join(Tail(parts), sep)

\* text.replace('--- Page Break ---', '')
RemovePageBreaks(s) == SelectSeq(s, LAMBDA c : c # PageBreakMark)

\* ' '.join(text.replace('--- Page Break ---', '').split())
Normalized(text) == Join(Words(RemovePageBreaks(text)), <<" ">>)

\* "\n\n--- Page Break ---\n\n"
PageSeparator == <<"\n", "\n", PageBreakMark, "\n", "\n">>

\* f"[ERROR: Failed to process image {idx + 1}]\n", idx counted from 0
ErrorPlaceholder(k) ==
    <<"[", (CHOOSE d \in Digit : d = ToString(k)), "]", "\n">>

\* ----------------------------------------------------------- PostProcessor
\* re.sub(r'\b([A-Z])\s+([a-z])', r'\1\2', s): leftmost, non-overlapping
\* matches, scanned from position i
RECURSIVE SubSplitLetter(_, _)
SubSplitLetter(s, i) ==
    IF i > Len(s) THEN <<>>
    ELSE LET k == Len(s) - i - Len(LStrip(SubSeq(s, i + 1, Len(s))))
             boundary == i = 1 \/ ~IsWordChar(s[i - 1])
             hit == /\ s[i] \in Upper
                    /\ boundary
                    /\ k >= 1
                    /\ i + k + 1 <= Len(s)
                    /\ s[i + k + 1] \in Lower
         IN IF hit THEN <<s[i], s[i + k + 1]>> \o SubSplitLetter(s, i + k + 2)
            ELSE <<s[i]>> \o SubSplitLetter(s, i + 1)

fix_spacing_errors(text) ==
    IF text = <<>> THEN text ELSE Strip(SubSplitLetter(text, 1))

\* length of the prefix matched by ^(#+\s*) on a line that starts with "#"
RECURSIVE HashRun(_, _)
HashRun(s, i) == IF i <= Len(s) /\ s[i] = "#" THEN HashRun(s, i + 1) ELSE i - 1

HeaderPrefixLen(line) ==
    LET h == HashRun(line, 1) IN
    Len(line) - Len(LStrip(SubSeq(line, h + 1, Len(line))))

FixLine(line) ==
    IF StartsWith(Strip(line), <<"#">>) /\ StartsWith(line, <<"#">>)
    THEN LET n == HeaderPrefixLen(line) IN
         SubSeq(line, 1, n) \o fix_spacing_errors(SubSeq(line, n + 1, Len(line)))
    ELSE fix_spacing_errors(line)

\* variant for mutation testing: the text is corrected as a whole, not line
\* by line
fix_title_spacing_WholeText(markdown_text) == fix_spacing_errors(markdown_text)

\* ocr.py:106-128
fix_title_spacing(markdown_text) ==
    LET lines == SplitOn(markdown_text, "\n") IN
    Join([i \in 1..Len(lines) |-> FixLine(lines[i])], <<"\n">>)

\* ------------------------------------------------------------ Deduplicator
IsHeaderLine(line) == StartsWith(Strip(line), <<"#">>)

\* ' '.join(line.strip().split()).lower()
HeaderText(line) == LowerCase(Join(Words(Strip(line)), <<" ">>))

PrevHeaders(prev_text) ==
    LET prev_lines == SplitOn(prev_text, "\n") IN
    {HeaderText(prev_lines[i]) :
        i \in {k \in 1..Len(prev_lines) : IsHeaderLine(prev_lines[k])}}

\* one pass of the loop over the lines of the current page (ocr.py:485-508);
\* st = [new_lines, found_new_section, current_section_lines]
ScanLine(line, prev_headers, st) ==
    IF IsHeaderLine(line)
    THEN IF HeaderText(line) \notin prev_headers
         THEN [new_lines |-> st.new_lines \o st.current_section_lines \o <<line>>,
               found_new_section |-> TRUE,
               current_section_lines |-> <<>>]
         ELSE [new_lines |->
                   IF st.found_new_section
                   THEN st.new_lines \o st.current_section_lines
                   ELSE st.new_lines,
               found_new_section |-> FALSE,
               current_section_lines |-> <<>>]
    ELSE IF st.found_new_section
         THEN [st EXCEPT !.new_lines = st.new_lines \o <<line>>]
         ELSE IF prev_headers = {}
              THEN [st EXCEPT !.current_section_lines =
                                  st.current_section_lines \o <<line>>]
              ELSE st

RECURSIVE ScanLines(_, _, _)
ScanLines(lines, prev_headers, st) ==
    IF lines = <<>> THEN st
    ELSE ScanLines(Tail(lines), prev_headers, ScanLine(Head(lines), prev_headers, st))

\* the lines kept for a cumulative page (ocr.py:470-512)
NewLines(text, prev_text) ==
    LET st == ScanLines(SplitOn(text, "\n"), PrevHeaders(prev_text),
                        [new_lines |-> <<>>, found_new_section |-> FALSE,
                         current_section_lines |-> <<>>])
    IN IF st.found_new_section
       THEN st.new_lines \o st.current_section_lines
       ELSE st.new_lines

\* variant for mutation testing: a cumulative page contributes the lines of
\* the header scan even when there are none
CumulativeKeep_NoFallback(text, prev_text) ==
    Strip(Join(NewLines(text, prev_text), <<"\n">>))

\* what a cumulative page contributes (ocr.py:514-526)
CumulativeKeep(text, prev_text) ==
    LET new_content == Strip(Join(NewLines(text, prev_text), <<"\n">>)) IN
    IF new_content # <<>> THEN new_content ELSE text

\* the loop over the pages (ocr.py:453-530);
\* d = [deduplicated_texts, previous_normalized]
RECURSIVE DedupLoop(_, _, _)
DedupLoop(texts, idx, d) ==
    IF idx > Len(texts) THEN d
    ELSE LET text == texts[idx]
             normalized == Normalized(text)
         IN IF normalized = <<>> THEN DedupLoop(texts, idx + 1, d)
            ELSE IF idx = 1
            THEN DedupLoop(texts, idx + 1,
                     [deduplicated_texts |-> d.deduplicated_texts \o <<text>>,
                      previous_normalized |-> normalized])
            ELSE IF /\ StartsWith(normalized, d.previous_normalized)
                    /\ Len(normalized) > Len(d.previous_normalized)
            THEN DedupLoop(texts, idx + 1,
                     [deduplicated_texts |->
                          d.deduplicated_texts \o <<CumulativeKeep(text, texts[idx - 1])>>,
                      previous_normalized |-> normalized])
            ELSE DedupLoop(texts, idx + 1,
                     [deduplicated_texts |-> d.deduplicated_texts \o <<text>>,
                      previous_normalized |-> normalized])

\* variant for mutation testing: only the first page is kept
DeduplicatedTexts_FirstOnly(texts) ==
    IF Normalized(texts[1]) # <<>> THEN <<texts[1]>> ELSE <<>>

\* variant for mutation testing: the first page is not kept
DeduplicatedTexts_DropFirst(texts) ==
    LET kept == DedupLoop(texts, 1, [deduplicated_texts |-> <<>>,
                                     previous_normalized |-> <<>>]).deduplicated_texts
    IN IF Normalized(texts[1]) # <<>> THEN Tail(kept) ELSE kept

DeduplicatedTexts(texts) ==
    DedupLoop(texts, 1, [deduplicated_texts |-> <<>>,
                         previous_normalized |-> <<>>]).deduplicated_texts

\* variant for mutation testing: no fall back to the original pages when
\* nothing is kept
CombinedMarkdown_NoFallback(texts) ==
    IF Len(texts) > 1
    THEN Join(DeduplicatedTexts(texts), PageSeparator)
    ELSE IF texts # <<>> THEN texts[1] ELSE <<>>

\* variant for mutation testing: the separator also follows the last page
CombinedMarkdown_Trailing(texts) == Join(texts \o <<<<>>>>, PageSeparator)

\* combined_markdown of process_ocr_job (ocr.py:447-538)
CombinedMarkdown(texts) ==
    IF Len(texts) > 1
    THEN IF DeduplicatedTexts(texts) # <<>>
         THEN Join(DeduplicatedTexts(texts), PageSeparator)
         ELSE Join(texts, PageSeparator)
    ELSE IF texts # <<>> THEN texts[1] ELSE <<>>

\* ------------------------------------------------------------------- state
VARIABLES
    job_storage,      \* job id -> job record (ocr.py:48)
    job_lock,         \* the thread holding job_lock, or NoThread (ocr.py:49)
    pipeline_lock,    \* the thread holding pipeline_lock, or NoThread (ocr.py:52)
    pipeline,         \* 0: None; n >= 1: the n-th PPStructureV3 instance (ocr.py:32)
    async_uploads,    \* the /imgOcr/async requests still to arrive
    sync_uploads,     \* the /imgOcr requests still to arrive
    next_job,         \* the next fresh job id (uuid4, ocr.py:739)
    pc,               \* where each thread is
    loc,              \* the local variables of each thread
    faults_left,      \* transient faults the engine may still raise
    calltrace,        \* per thread: what happened in its last ocr_single_image call
    callbacks,        \* per job: the callback POSTs sent so far
    files,            \* the temporary input files that exist, as <<thread, index>>
    attempted,        \* the files a runner's cleanup called os.remove on
    meta,             \* per runner of a job that has any: its locals document_id,
                      \* extraction_result_id, user_id, groupname, name, and the
                      \* exception of its metadata lookup
    submitted,        \* per job that has any: the optional query parameters of
                      \* the request that made it
    response          \* the response the event loop is sending

vars == <<job_storage, job_lock, pipeline_lock, pipeline, async_uploads,
          sync_uploads, next_job, pc, loc, faults_left, calltrace, callbacks,
          files, attempted, meta, submitted, response>>

requestVars == <<async_uploads, sync_uploads, next_job>>
lockVars == <<job_lock, pipeline_lock>>
ghostVars == <<callbacks, attempted, submitted>>

JobIds == 1..MaxJobs
Threads == {Loop} \cup JobIds

\* the texts the engine reads off the images
PlainPage == <<"a">>

\* a request without the optional query parameters (ocr.py:702-706)
NoMeta ==
    [document_id |-> None, extraction_result_id |-> None, user_id |-> None,
     groupname |-> None, name |-> None]

\* the locals of a thread before it runs; engine is the PPStructureV3 instance
\* its engine call runs on (0: no call)
NoLocals ==
    [image_paths |-> <<>>, callback_url |-> FALSE, idx |-> 0, retry_count |-> 0,
     all_markdown_texts |-> <<>>, combined_markdown |-> <<>>, error_msg |-> None,
     job |-> 0, engine |-> 0]

\* the locals of ocr.py:345-349 before the record is read, and no exception
\* of the lookup
NoMetaLocals ==
    [document_id |-> None, extraction_result_id |-> None, user_id |-> None,
     groupname |-> None, name |-> None, fetch_error |-> None]

\* the locals document_id, ..., name of the runner of job j
MetaLocals(j) == IF j \in DOMAIN meta THEN meta[j] ELSE NoMetaLocals

NoResponse == [op |-> "none"]

Uploads(pool, sizes) == UNION {[1..n -> pool] : n \in sizes}

AsyncRequestsWith(pool, sizes, metas) ==
    [images : Uploads(pool, sizes), callback_url : BOOLEAN, meta : metas]

AsyncRequests(pool, sizes) == AsyncRequestsWith(pool, sizes, {NoMeta})

InitWith(asyncs, syncs, engine, faults) ==
    /\ job_storage = <<>>
    /\ job_lock = NoThread
    /\ pipeline_lock = NoThread
    /\ pipeline \in engine
    /\ async_uploads \in asyncs
    /\ sync_uploads \in syncs
    /\ next_job = 1
    /\ pc = [t \in Threads |-> IF t = Loop THEN "idle" ELSE "none"]
    /\ loc = [t \in Threads |-> NoLocals]
    /\ faults_left = faults
    /\ calltrace = [t \in Threads |-> <<>>]
    /\ callbacks = [j \in JobIds |-> <<>>]
    /\ files = {}
    /\ attempted = {}
    /\ meta = <<>>
    /\ submitted = <<>>
    /\ response = NoResponse

\* ---------------------------------------------------------- Engine Adapter
InJobStorage(job_id) == job_id \in DOMAIN job_storage

\* the call of ocr_single_image for image idx + 1 returned markdown_text
\* (ocr.py:437-438, 677-678)
ImageSucceeded(t, markdown_text) ==
    /\ loc' = [loc EXCEPT ![t].all_markdown_texts = @ \o <<markdown_text>>,
                          ![t].idx = @ + 1,
                          ![t].engine = 0]
    /\ pc' = [pc EXCEPT ![t] = "loop_head"]
    /\ UNCHANGED <<files, response>>

\* variant for mutation testing: a failed image ends the loop over the
\* images and its exception reaches `except Exception` (ocr.py:565)
ImageFailed_Abort(t) ==
    /\ loc' = [loc EXCEPT ![t].error_msg = Some("fault")]
    /\ pc' = [pc EXCEPT ![t] = IF t = Loop THEN "reply" ELSE "fail_acq"]
    /\ response' = IF t = Loop THEN [op |-> "imgOcr", code |-> 500] ELSE response
    /\ UNCHANGED files

\* variant for mutation testing: the job runner records nothing for a failed
\* image
ImageFailed_Skip(t) ==
    IF t = Loop
    THEN /\ loc' = [loc EXCEPT ![t] = NoLocals]
         /\ pc' = [pc EXCEPT ![t] = "reply"]
         /\ files' = {f \in files : f[1] # Loop}
         /\ response' = [op |-> "imgOcr", code |-> 500]
    ELSE /\ loc' = [loc EXCEPT ![t].idx = @ + 1, ![t].engine = 0]
         /\ pc' = [pc EXCEPT ![t] = "loop_head"]
         /\ UNCHANGED <<files, response>>

\* the call raised: the job runner records the placeholder and goes on
\* (ocr.py:439-444); /imgOcr answers 500 and removes its files (ocr.py:687-696)
ImageFailed(t) ==
    IF t = Loop
    THEN /\ loc' = [loc EXCEPT ![t] = NoLocals]
         /\ pc' = [pc EXCEPT ![t] = "reply"]
         /\ files' = {f \in files : f[1] # Loop}
         /\ response' = [op |-> "imgOcr", code |-> 500]
    ELSE /\ loc' = [loc EXCEPT ![t].all_markdown_texts =
                                   @ \o <<ErrorPlaceholder(loc[t].idx + 1)>>,
                               ![t].idx = @ + 1,
                               ![t].engine = 0]
         /\ pc' = [pc EXCEPT ![t] = "loop_head"]
         /\ UNCHANGED <<files, response>>

\* variant for mutation testing: the count of retries is kept from one call
\* of ocr_single_image to the next
InitialRetryCount_Carried(previous) == previous

\* `retry_count = 0` at the start of every call of ocr_single_image
\* (ocr.py:146)
InitialRetryCount(previous) == 0

\* variant for mutation testing: the lock is acquired and released by hand,
\* without try/finally, so that an exception leaves it held
LeavePipelineLock_NotOnRaise(t, raised) == IF raised THEN t ELSE NoThread

\* the holder of pipeline_lock after thread t leaves its `with pipeline_lock:`
\* block, by its end or by an exception (ocr.py:151-152, 164-170)
LeavePipelineLock(t, raised) == NoThread

\* variant for mutation testing: `with pipeline_lock` lets every thread in
PipelineLockFree_Always(t) == TRUE

\* variant for mutation testing: a waiting thread enters only when no thread
\* of an earlier job is waiting for the engine call
PipelineLockFree_InOrder(t) ==
    /\ pipeline_lock = NoThread
    /\ \A u \in 1..(t - 1) : pc[u] \notin {"start", "pickup", "loop_head", "predict_acq"}

\* `with pipeline_lock:` can be entered (ocr.py:151, 164)
PipelineLockFree(t) == pipeline_lock = NoThread

\* ocr.py:151-152: enter `with pipeline_lock`; pipeline.predict is called on
\* the instance the global holds now
PredictAcquire(t) ==
    /\ pc[t] = "predict_acq"
    /\ PipelineLockFree(t)
    /\ pipeline_lock' = t
    /\ loc' = [loc EXCEPT ![t].engine = pipeline]
    /\ pc' = [pc EXCEPT ![t] = "predict"]
    /\ UNCHANGED <<job_storage, job_lock, pipeline, requestVars, faults_left,
                   calltrace, ghostVars, meta, files, response>>

\* ocr.py:152-153 and 177-296: pipeline.predict returns, the lock is left and
\* the markdown is read back and post-processed
PredictReturn(t) ==
    /\ pc[t] = "predict"
    /\ pipeline_lock' = LeavePipelineLock(t, FALSE)
    /\ calltrace' = [calltrace EXCEPT ![t] = @ \o <<"ok">>]
    /\ ImageSucceeded(t, fix_title_spacing(loc[t].image_paths[loc[t].idx + 1]))
    /\ UNCHANGED <<job_storage, job_lock, pipeline, requestVars, faults_left,
                   ghostVars, meta>>

\* variant for mutation testing: one retry only
RetryAllowed_Once(retry_count) == retry_count < max_retries

\* retry_count <= max_retries after the increment (ocr.py:159-160)
RetryAllowed(retry_count) == retry_count <= max_retries

\* ocr.py:154-172: pipeline.predict raises a RuntimeError of the transient
\* class ("Tensor holds no memory", "PreconditionNotMet"); the lock is left
PredictTransientFault(t) ==
    /\ pc[t] = "predict"
    /\ faults_left > 0
    /\ faults_left' = faults_left - 1
    /\ pipeline_lock' = LeavePipelineLock(t, TRUE)
    /\ calltrace' = [calltrace EXCEPT ![t] = @ \o <<"transient">>]
    /\ IF RetryAllowed(loc[t].retry_count + 1)
       THEN /\ loc' = [loc EXCEPT ![t].retry_count = @ + 1]
            /\ pc' = [pc EXCEPT ![t] = "reinit_acq"]
            /\ UNCHANGED <<files, response>>
       ELSE ImageFailed(t)
    /\ UNCHANGED <<job_storage, job_lock, pipeline, requestVars, ghostVars, meta>>

\* ocr.py:173-175 and 297-298: pipeline.predict raises anything else, or the
\* handling of its result raises; the lock is left
PredictOtherFault(t) ==
    /\ pc[t] = "predict"
    /\ pipeline_lock' = LeavePipelineLock(t, TRUE)
    /\ calltrace' = [calltrace EXCEPT ![t] = @ \o <<"other">>]
    /\ ImageFailed(t)
    /\ UNCHANGED <<job_storage, job_lock, pipeline, requestVars, faults_left,
                   ghostVars, meta>>

\* ocr.py:164: enter `with pipeline_lock` for the reinitialization
ReinitAcquire(t) ==
    /\ pc[t] = "reinit_acq"
    /\ PipelineLockFree(t)
    /\ pipeline_lock' = t
    /\ pc' = [pc EXCEPT ![t] = "reinit"]
    /\ UNCHANGED <<job_storage, job_lock, pipeline, requestVars, loc, faults_left,
                   calltrace, ghostVars, meta, files, response>>

\* ocr.py:165-167: PPStructureV3() returns the new instance; back to line 149
ReinitReturn(t) ==
    /\ pc[t] = "reinit"
    /\ pipeline_lock' = LeavePipelineLock(t, FALSE)
    /\ pipeline' = pipeline + 1
    /\ calltrace' = [calltrace EXCEPT ![t] = @ \o <<"reinit">>]
    /\ loc' = [loc EXCEPT ![t].engine = 0]
    /\ pc' = [pc EXCEPT ![t] = "predict_acq"]
    /\ UNCHANGED <<job_storage, job_lock, requestVars, faults_left, ghostVars, meta,
                   files, response>>

\* variant for mutation testing: a failed reinitialization leaves the global
\* unset
PipelineAfterFailedInit_Unset(previous) == 0

\* the global after `pipeline = PPStructureV3()` raised (ocr.py:166): the
\* assignment is not made
PipelineAfterFailedInit(previous) == previous

\* ocr.py:168-170: PPStructureV3() raises; pipeline keeps the old instance
ReinitFails(t) ==
    /\ pc[t] = "reinit"
    /\ pipeline_lock' = LeavePipelineLock(t, TRUE)
    /\ calltrace' = [calltrace EXCEPT ![t] = @ \o <<"reinit_failed">>]
    /\ ImageFailed(t)
    /\ pipeline' = PipelineAfterFailedInit(pipeline)
    /\ UNCHANGED <<job_storage, job_lock, requestVars, faults_left,
                   ghostVars, meta>>

\* -------------------------------------------------------------- Job Runner
\* the holder of job_lock after thread t leaves its `with job_lock:` block
\* (ocr.py:364, 553, 577, 586)
LeaveJobLock(t) == NoThread

\* `with job_lock:` can be entered (ocr.py:352, 549, 573, 582, 752, 792, 820)
JobLockFree(t) == job_lock = NoThread

\* variant for mutation testing: the write goes to every record
SetStatus_All(job_id, status) ==
    [k \in DOMAIN job_storage |-> [job_storage[k] EXCEPT !.status = status]]

\* job_storage[job_id]["status"] = status (ocr.py:363, 551, 575)
SetStatus(job_id, status) == [job_storage EXCEPT ![job_id].status = status]

\* ocr.py:352: the runner thread starts and enters `with job_lock`
PickupAcquire(j) ==
    /\ pc[j] = "start"
    /\ JobLockFree(j)
    /\ job_lock' = j
    /\ pc' = [pc EXCEPT ![j] = "pickup"]
    /\ UNCHANGED <<job_storage, pipeline_lock, pipeline, requestVars, loc,
                   faults_left, calltrace, ghostVars, meta, files, response>>

\* a str that is neither None nor empty
Truthy(x) == x \notin {None, Some(<<>>)}

\* `x if x else ""`
OrEmpty(x) == IF Truthy(x) THEN x[1] ELSE <<>>

\* the record holds one of the optional query parameters
HasMeta(job) ==
    \E key \in {"document_id", "extraction_result_id", "user_id", "groupname", "name"} :
        job[key] # None

\* ocr.py:353-364: read the record, set Processing, leave the lock; the
\* lookup of ocr.py:371-417 is made when the job has a document id
Pickup(j) ==
    /\ pc[j] = "pickup"
    /\ job_lock' = LeaveJobLock(j)
    /\ IF ~InJobStorage(j)
       THEN /\ pc' = [pc EXCEPT ![j] = "cleanup"]
            /\ UNCHANGED <<job_storage, loc, meta>>
       ELSE /\ loc' = [loc EXCEPT ![j].callback_url = job_storage[j].callback_url]
            /\ meta' = IF HasMeta(job_storage[j])
                       THEN (j :> [document_id |-> job_storage[j].document_id,
                                   extraction_result_id |->
                                       job_storage[j].extraction_result_id,
                                   user_id |-> job_storage[j].user_id,
                                   groupname |-> job_storage[j].groupname,
                                   name |-> job_storage[j].name,
                                   fetch_error |-> None]) @@ meta
                       ELSE meta
            /\ job_storage' = SetStatus(j, JOB_STATUS_PROCESSING)
            /\ pc' = [pc EXCEPT ![j] = IF Truthy(job_storage[j].document_id)
                                       THEN "lookup" ELSE "loop_head"]
    /\ UNCHANGED <<pipeline_lock, pipeline, requestVars, faults_left, calltrace,
                   ghostVars, files, response>>

\* re.sub(r'[^a-zA-Z0-9\-_]', '_', str(document_id)) (ocr.py:396, 407)
Sanitized(document_id) ==
    [i \in DOMAIN document_id |->
        IF document_id[i] \in Upper \cup Lower \cup Digit \cup {"-", "_"}
        THEN document_id[i] ELSE "_"]

\* variant for mutation testing: the document id is used as it is
OrDocId_Raw(x, document_id) == IF Truthy(x) THEN x ELSE document_id

\* `if not groupname: groupname = safe_doc_id` (ocr.py:397-400, 408-411)
OrDocId(x, document_id) == IF Truthy(x) THEN x ELSE Some(Sanitized(document_id[1]))

\* the values of group_name and file_name in the document of the answer
FetchedGroupNames == {None, Some(<<"G">>)}
FetchedNames == {None, Some(<<"N">>)}

\* ocr.py:376-400: the server answers 200 with success and a document
LookupAnswered(j) ==
    /\ pc[j] = "lookup"
    /\ \E fetched_groupname \in FetchedGroupNames, fetched_name \in FetchedNames :
         LET groupname == IF Truthy(fetched_groupname) THEN fetched_groupname
                          ELSE meta[j].groupname
             name == IF Truthy(fetched_name) THEN fetched_name ELSE meta[j].name
         IN meta' = [meta EXCEPT
                        ![j].groupname = OrDocId(groupname, meta[j].document_id),
                        ![j].name = OrDocId(name, meta[j].document_id)]
    /\ pc' = [pc EXCEPT ![j] = "loop_head"]
    /\ UNCHANGED <<job_storage, lockVars, pipeline, requestVars, loc, faults_left,
                   calltrace, ghostVars, files, response>>

\* what makes the lookup raise: requests.get raises (timeout, no
\* connection), the status is not 200, response.json() raises, or the body
\* has no success or no document
LookupFailures == {"timeout", "http_status", "malformed", "unsuccessful"}

\* variant for mutation testing: a timeout of the lookup is not caught
AfterLookup_TimeoutRaises(e) == IF e = "timeout" THEN "fail_acq" ELSE "loop_head"

\* where the runner goes when the lookup raised e: `except Exception`
\* (ocr.py:404) takes every exception and the loop over the images follows
AfterLookup(e) == "loop_head"

\* ocr.py:375-417: the lookup raises and `except Exception` takes it
LookupFails(j) ==
    /\ pc[j] = "lookup"
    /\ \E e \in LookupFailures :
         /\ meta' = [meta EXCEPT
                        ![j].fetch_error = Some(e),
                        ![j].groupname = OrDocId(meta[j].groupname, meta[j].document_id),
                        ![j].name = OrDocId(meta[j].name, meta[j].document_id)]
         /\ pc' = [pc EXCEPT ![j] = AfterLookup(e)]
    /\ UNCHANGED <<job_storage, lockVars, pipeline, requestVars, loc, faults_left,
                   calltrace, ghostVars, files, response>>

\* ocr.py:421 and 137-147: the next image enters ocr_single_image, or the
\* loop over the images is over
RunnerLoopHead(j) ==
    /\ j \in JobIds
    /\ pc[j] = "loop_head"
    /\ IF loc[j].idx >= Len(loc[j].image_paths)
       THEN /\ pc' = [pc EXCEPT ![j] = "combine"]
            /\ UNCHANGED <<loc, files, response, calltrace>>
       ELSE /\ calltrace' = [calltrace EXCEPT ![j] = <<>>]
            /\ IF pipeline = 0
               THEN ImageFailed(j)
               ELSE /\ loc' = [loc EXCEPT ![j].retry_count = InitialRetryCount(@)]
                    /\ pc' = [pc EXCEPT ![j] = "predict_acq"]
                    /\ UNCHANGED <<files, response>>
    /\ UNCHANGED <<job_storage, lockVars, pipeline, requestVars, faults_left,
                   ghostVars, meta>>

\* len(combined_markdown.strip()) < 50 (ocr.py:541)
ShortText(combined_markdown) == Len(Strip(combined_markdown)) < MinTextLength

\* variant for mutation testing: a short text fails the job
AfterCombine_ShortFails(combined_markdown) ==
    IF ShortText(combined_markdown) THEN "fail_acq" ELSE "complete_acq"

\* where the runner goes with the combined text: a short text is logged
\* (ocr.py:540-546) and the Completed write follows
AfterCombine(combined_markdown) == "complete_acq"

\* ocr.py:447-546: deduplicate and combine
Combine(j) ==
    /\ pc[j] = "combine"
    /\ loc' = [loc EXCEPT ![j].combined_markdown =
                              CombinedMarkdown(loc[j].all_markdown_texts)]
    /\ pc' = [pc EXCEPT ![j] = AfterCombine(CombinedMarkdown(loc[j].all_markdown_texts))]
    /\ UNCHANGED <<job_storage, lockVars, pipeline, requestVars, faults_left,
                   calltrace, ghostVars, meta, files, response>>

\* ocr.py:565-571: a statement of the try block outside the loop over the
\* images raises, and `except Exception` takes its message
CombineRaises(j) ==
    /\ pc[j] = "combine"
    /\ loc' = [loc EXCEPT ![j].error_msg = Some("fault")]
    /\ pc' = [pc EXCEPT ![j] = "fail_acq"]
    /\ UNCHANGED <<job_storage, lockVars, pipeline, requestVars, faults_left,
                   calltrace, ghostVars, meta, files, response>>

\* ocr.py:565-571: the same with an exception that was made without
\* arguments (MemoryError()), whose str(e) is ""
CombineRaisesBare(j) ==
    /\ pc[j] = "combine"
    /\ loc' = [loc EXCEPT ![j].error_msg = Some("")]
    /\ pc' = [pc EXCEPT ![j] = "fail_acq"]
    /\ UNCHANGED <<job_storage, lockVars, pipeline, requestVars, faults_left,
                   calltrace, ghostVars, meta, files, response>>

\* ocr.py:549
CompleteAcquire(j) ==
    /\ pc[j] = "complete_acq"
    /\ JobLockFree(j)
    /\ job_lock' = j
    /\ pc' = [pc EXCEPT ![j] = "complete"]
    /\ UNCHANGED <<job_storage, pipeline_lock, pipeline, requestVars, loc,
                   faults_left, calltrace, ghostVars, meta, files, response>>

\* variant for mutation testing: the callback is sent whether or not the
\* job has a callback URL
AfterCompleted_Always(j) == "callback"

\* where the runner goes after the Completed write (ocr.py:559-563)
AfterCompleted(j) == IF loc[j].callback_url THEN "callback" ELSE "cleanup"

\* ocr.py:550-551
CompleteStatus(j) ==
    /\ pc[j] = "complete"
    /\ IF InJobStorage(j)
       THEN /\ job_storage' = SetStatus(j, JOB_STATUS_COMPLETED)
            /\ pc' = [pc EXCEPT ![j] = "complete_text"]
            /\ UNCHANGED job_lock
       ELSE /\ job_lock' = LeaveJobLock(j)
            /\ pc' = [pc EXCEPT ![j] = AfterCompleted(j)]
            /\ UNCHANGED job_storage
    /\ UNCHANGED <<pipeline_lock, pipeline, requestVars, loc, faults_left,
                   calltrace, ghostVars, meta, files, response>>

\* ocr.py:552-553, and the lock is left
CompleteText(j) ==
    /\ pc[j] = "complete_text"
    /\ job_storage' = [job_storage EXCEPT ![j].text = Some(loc[j].combined_markdown)]
    /\ job_lock' = LeaveJobLock(j)
    /\ pc' = [pc EXCEPT ![j] = AfterCompleted(j)]
    /\ UNCHANGED <<pipeline_lock, pipeline, requestVars, loc, faults_left,
                   calltrace, ghostVars, meta, files, response>>

\* ocr.py:573
FailAcquire(j) ==
    /\ pc[j] = "fail_acq"
    /\ JobLockFree(j)
    /\ job_lock' = j
    /\ pc' = [pc EXCEPT ![j] = "fail_status"]
    /\ UNCHANGED <<job_storage, pipeline_lock, pipeline, requestVars, loc,
                   faults_left, calltrace, ghostVars, meta, files, response>>

\* variant for mutation testing: no callback is sent for a Failed job
AfterFailed_NoCallback(j) == "cleanup"

\* where the runner goes after the Failed write (ocr.py:580)
AfterFailed(j) == IF loc[j].callback_url THEN "fail_meta_acq" ELSE "cleanup"

\* ocr.py:574-575
FailStatus(j) ==
    /\ pc[j] = "fail_status"
    /\ IF InJobStorage(j)
       THEN /\ job_storage' = SetStatus(j, JOB_STATUS_FAILED)
            /\ pc' = [pc EXCEPT ![j] = "fail_error"]
            /\ UNCHANGED job_lock
       ELSE /\ job_lock' = LeaveJobLock(j)
            /\ pc' = [pc EXCEPT ![j] = AfterFailed(j)]
            /\ UNCHANGED job_storage
    /\ UNCHANGED <<pipeline_lock, pipeline, requestVars, loc, faults_left,
                   calltrace, ghostVars, meta, files, response>>

\* ocr.py:576-577, and the lock is left
FailError(j) ==
    /\ pc[j] = "fail_error"
    /\ job_storage' = [job_storage EXCEPT ![j].error = loc[j].error_msg]
    /\ job_lock' = LeaveJobLock(j)
    /\ pc' = [pc EXCEPT ![j] = AfterFailed(j)]
    /\ UNCHANGED <<pipeline_lock, pipeline, requestVars, loc, faults_left,
                   calltrace, ghostVars, meta, files, response>>

\* ocr.py:582
FailMetaAcquire(j) ==
    /\ pc[j] = "fail_meta_acq"
    /\ JobLockFree(j)
    /\ job_lock' = j
    /\ pc' = [pc EXCEPT ![j] = "fail_meta"]
    /\ UNCHANGED <<job_storage, pipeline_lock, pipeline, requestVars, loc,
                   faults_left, calltrace, ghostVars, meta, files, response>>

\* job.get(key) if job else None (ocr.py:583-586)
JobField(j, key) == IF InJobStorage(j) THEN job_storage[j][key] ELSE None

\* ocr.py:583-586: the ids for the callback are read again, the lock is left
FailMeta(j) ==
    /\ pc[j] = "fail_meta"
    /\ job_lock' = LeaveJobLock(j)
    /\ meta' = IF j \in DOMAIN meta
               THEN [meta EXCEPT
                        ![j].document_id = JobField(j, "document_id"),
                        ![j].extraction_result_id = JobField(j, "extraction_result_id"),
                        ![j].user_id = JobField(j, "user_id")]
               ELSE meta
    /\ pc' = [pc EXCEPT ![j] = "callback_fail"]
    /\ UNCHANGED <<job_storage, pipeline_lock, pipeline, requestVars, loc,
                   faults_left, calltrace, ghostVars, files, response>>

\* ---------------------------------------------------- Callback Dispatcher
CallbackFailures == {"connection_error", "timeout", "http_error"}

\* variant for mutation testing: send_callback catches nothing
CallbackRaises_Always(outcome) == TRUE

\* variant for mutation testing: send_callback lets a timeout out of its try block
CallbackRaises_Timeout(outcome) == outcome = "timeout"

\* the outcomes of requests.post / raise_for_status that send_callback lets
\* out: ConnectionError is caught at ocr.py:328, every other Exception at 333
CallbackRaises(outcome) == FALSE

\* the JSON body of send_callback (ocr.py:313-323); error is None when the
\* body has no "error" key
Payload(status, text, error, ids) ==
    [text |-> IF status = JOB_STATUS_COMPLETED THEN text ELSE <<>>,
     extraction_result_id |-> OrEmpty(ids.extraction_result_id),
     document_id |-> OrEmpty(ids.document_id),
     user_id |-> OrEmpty(ids.user_id),
     error |-> IF status = JOB_STATUS_FAILED /\ error \notin {None, Some("")}
               THEN error ELSE None]

\* the call of send_callback the runner is at: ocr.py:561 or ocr.py:589
CallbackStatus(j) ==
    IF pc[j] = "callback" THEN JOB_STATUS_COMPLETED ELSE JOB_STATUS_FAILED

Posted(j, delivered) ==
    callbacks' = [callbacks EXCEPT ![j] = @ \o
        <<[status |-> CallbackStatus(j), delivered |-> delivered,
           payload |-> Payload(CallbackStatus(j), loc[j].combined_markdown,
                               loc[j].error_msg, MetaLocals(j))]>>]

\* send_callback (ocr.py:300-327): the POST is answered 2xx
SendCallback(j) ==
    /\ pc[j] \in {"callback", "callback_fail"}
    /\ Posted(j, TRUE)
    /\ pc' = [pc EXCEPT ![j] = "cleanup"]
    /\ UNCHANGED <<job_storage, lockVars, pipeline, requestVars, loc, faults_left,
                   calltrace, files, attempted, submitted, meta, response>>

\* send_callback (ocr.py:325-334): the POST fails; what send_callback lets out
\* reaches `except Exception` (ocr.py:565) from line 561, and ends the
\* handler from line 589
SendCallbackFails(j) ==
    /\ pc[j] \in {"callback", "callback_fail"}
    /\ Posted(j, FALSE)
    /\ \E outcome \in CallbackFailures :
        IF CallbackRaises(outcome) /\ pc[j] = "callback"
        THEN /\ loc' = [loc EXCEPT ![j].error_msg = Some(outcome)]
             /\ pc' = [pc EXCEPT ![j] = "fail_acq"]
        ELSE /\ pc' = [pc EXCEPT ![j] = "cleanup"]
             /\ UNCHANGED loc
    /\ UNCHANGED <<job_storage, lockVars, pipeline, requestVars, faults_left,
                   calltrace, files, attempted, submitted, meta, response>>

\* ------------------------------------------------------------------ cleanup
\* the temporary files of thread t that exist
FilesOf(t) == {f \in files : f[1] = t}

\* variant for mutation testing: the loop over the files ends at the first
\* removal that raises
RemovalAttempts_StopAtFailure(j, failing) ==
    {f \in FilesOf(j) : \A g \in failing : f[2] <= g[2]}

\* the files the loop of the finally block calls os.remove on, when the
\* removal of the files in `failing` raises (ocr.py:592-598)
RemovalAttempts(j, failing) == FilesOf(j)

\* ocr.py:590-598: the finally block removes every file; the thread ends
Cleanup(j) ==
    /\ pc[j] = "cleanup"
    /\ attempted' = attempted \cup RemovalAttempts(j, {})
    /\ files' = files \ RemovalAttempts(j, {})
    /\ pc' = [pc EXCEPT ![j] = "done"]
    /\ loc' = [loc EXCEPT ![j] = NoLocals]
    /\ meta' = IF j \in DOMAIN meta
               THEN [k \in DOMAIN meta \ {j} |-> meta[k]]
               ELSE meta
    /\ calltrace' = [calltrace EXCEPT ![j] = <<>>]
    /\ UNCHANGED <<job_storage, lockVars, pipeline, requestVars, faults_left,
                   callbacks, submitted, response>>

\* ocr.py:590-598: os.remove raises for some of the files
CleanupWithFailures(j) ==
    /\ pc[j] = "cleanup"
    /\ \E failing \in SUBSET FilesOf(j) \ {{}} :
        /\ attempted' = attempted \cup RemovalAttempts(j, failing)
        /\ files' = files \ (RemovalAttempts(j, failing) \ failing)
    /\ pc' = [pc EXCEPT ![j] = "done"]
    /\ loc' = [loc EXCEPT ![j] = NoLocals]
    /\ meta' = IF j \in DOMAIN meta
               THEN [k \in DOMAIN meta \ {j} |-> meta[k]]
               ELSE meta
    /\ calltrace' = [calltrace EXCEPT ![j] = <<>>]
    /\ UNCHANGED <<job_storage, lockVars, pipeline, requestVars, faults_left,
                   callbacks, submitted, response>>

\* ------------------------------------------------------------- API surface
LoopIdle == pc[Loop] = "idle"

\* POST /imgOcr/async (ocr.py:698-777): the record is created Pending under
\* job_lock and the runner thread is started
ImgOcrAsync ==
    /\ LoopIdle
    /\ JobLockFree(Loop)
    /\ async_uploads # <<>>
    /\ next_job \in JobIds
    /\ LET req == Head(async_uploads)
           job_id == next_job
       IN /\ job_storage' =
               (job_id :> [status |-> JOB_STATUS_PENDING,
                           callback_url |-> req.callback_url,
                           num_files |-> Len(req.images),
                           document_id |-> req.meta.document_id,
                           extraction_result_id |-> req.meta.extraction_result_id,
                           user_id |-> req.meta.user_id,
                           groupname |-> req.meta.groupname,
                           name |-> req.meta.name,
                           text |-> None,
                           error |-> None]) @@ job_storage
          /\ submitted' = IF req.meta = NoMeta THEN submitted
                           ELSE (job_id :> req.meta) @@ submitted
          /\ files' = files \cup {<<job_id, i>> : i \in 1..Len(req.images)}
          /\ loc' = [loc EXCEPT ![job_id].image_paths = req.images]
          /\ pc' = [pc EXCEPT ![job_id] = "start", ![Loop] = "reply"]
          /\ response' = [op |-> "imgOcrAsync", id |-> job_id, code |-> 200,
                          status |-> JOB_STATUS_PENDING]
    /\ async_uploads' = Tail(async_uploads)
    /\ next_job' = next_job + 1
    /\ UNCHANGED <<lockVars, pipeline, sync_uploads, faults_left, calltrace,
                   callbacks, attempted, meta>>

\* the response is sent and the event loop takes the next request
Reply ==
    /\ pc[Loop] = "reply"
    /\ pc' = [pc EXCEPT ![Loop] = "idle"]
    /\ response' = NoResponse
    /\ calltrace' = [calltrace EXCEPT ![Loop] = <<>>]
    /\ UNCHANGED <<job_storage, lockVars, pipeline, requestVars, loc, faults_left,
                   ghostVars, meta, files>>

\* variant for mutation testing: the delete of an id that is not in the
\* store reports success
CodeForAbsent_DeleteOk(op) == IF op = "delete" THEN 200 ELSE 404

\* the status code of the answer for an id that is not in the store
\* (ocr.py:795-796, 821-822)
CodeForAbsent(op) == 404

\* GET /imgOcr/status/{job_id}, ocr.py:792-796: the record is looked up under
\* job_lock; the response is built after the lock is left
GetJobStatus(job_id) ==
    /\ LoopIdle
    /\ JobLockFree(Loop)
    /\ IF ~InJobStorage(job_id)
       THEN /\ response' = [op |-> "status", id |-> job_id,
                            code |-> CodeForAbsent("status")]
            /\ pc' = [pc EXCEPT ![Loop] = "reply"]
            /\ UNCHANGED loc
       ELSE /\ loc' = [loc EXCEPT ![Loop].job = job_id]
            /\ pc' = [pc EXCEPT ![Loop] = "gs_status"]
            /\ UNCHANGED response
    /\ UNCHANGED <<job_storage, lockVars, pipeline, requestVars, faults_left,
                   calltrace, ghostVars, meta, files>>

\* ocr.py:798-802: job["status"] is read for the response
GetJobStatusRead ==
    /\ pc[Loop] = "gs_status"
    /\ response' = [op |-> "status", id |-> loc[Loop].job, code |-> 200,
                    status |-> job_storage[loc[Loop].job].status,
                    text |-> None, error |-> None, started |-> FALSE]
    /\ pc' = [pc EXCEPT ![Loop] = "gs_completed"]
    /\ UNCHANGED <<job_storage, lockVars, pipeline, requestVars, loc, faults_left,
                   calltrace, ghostVars, meta, files>>

\* job.get(key, default) of an optional field
GetOr(field, default) == IF field = None THEN default ELSE field[1]

\* ocr.py:804-806: job["status"] is read again and compared with Completed
GetJobStatusCompleted ==
    /\ pc[Loop] = "gs_completed"
    /\ LET job == job_storage[loc[Loop].job] IN
       IF job.status = JOB_STATUS_COMPLETED
       THEN /\ response' = [response EXCEPT !.text = Some(GetOr(job.text, <<>>))]
            /\ pc' = [pc EXCEPT ![Loop] = "reply"]
            /\ loc' = [loc EXCEPT ![Loop] = NoLocals]
       ELSE /\ pc' = [pc EXCEPT ![Loop] = "gs_failed"]
            /\ UNCHANGED <<response, loc>>
    /\ UNCHANGED <<job_storage, lockVars, pipeline, requestVars, faults_left,
                   calltrace, ghostVars, meta, files>>

\* ocr.py:807-809: job["status"] is read again and compared with Failed
GetJobStatusFailed ==
    /\ pc[Loop] = "gs_failed"
    /\ LET job == job_storage[loc[Loop].job] IN
       IF job.status = JOB_STATUS_FAILED
       THEN /\ response' = [response EXCEPT
                               !.error = Some(GetOr(job.error, "Unknown error"))]
            /\ pc' = [pc EXCEPT ![Loop] = "reply"]
            /\ loc' = [loc EXCEPT ![Loop] = NoLocals]
       ELSE /\ pc' = [pc EXCEPT ![Loop] = "gs_processing"]
            /\ UNCHANGED <<response, loc>>
    /\ UNCHANGED <<job_storage, lockVars, pipeline, requestVars, faults_left,
                   calltrace, ghostVars, meta, files>>

\* ocr.py:810-813: job["status"] is read again and compared with Processing
GetJobStatusProcessing ==
    /\ pc[Loop] = "gs_processing"
    /\ response' = [response EXCEPT !.started =
                        job_storage[loc[Loop].job].status = JOB_STATUS_PROCESSING]
    /\ pc' = [pc EXCEPT ![Loop] = "reply"]
    /\ loc' = [loc EXCEPT ![Loop] = NoLocals]
    /\ UNCHANGED <<job_storage, lockVars, pipeline, requestVars, faults_left,
                   calltrace, ghostVars, meta, files>>

\* variant for mutation testing: only a Processing job is refused
DeleteRefused_ProcessingOnly(status) == status = JOB_STATUS_PROCESSING

\* the statuses delete_job refuses (ocr.py:825)
DeleteRefused(status) == status \in {JOB_STATUS_PROCESSING, JOB_STATUS_PENDING}

\* DELETE /imgOcr/status/{job_id} (ocr.py:815-841), all of it under job_lock;
\* the record has no "image_path" key, so no file is removed (ocr.py:832)
DeleteJob(job_id) ==
    /\ LoopIdle
    /\ JobLockFree(Loop)
    /\ IF ~InJobStorage(job_id)
       THEN /\ response' = [op |-> "delete", id |-> job_id,
                            code |-> CodeForAbsent("delete")]
            /\ UNCHANGED job_storage
       ELSE IF DeleteRefused(job_storage[job_id].status)
       THEN /\ response' = [op |-> "delete", id |-> job_id, code |-> 400]
            /\ UNCHANGED job_storage
       ELSE /\ response' = [op |-> "delete", id |-> job_id, code |-> 200]
            /\ job_storage' = [k \in DOMAIN job_storage \ {job_id} |-> job_storage[k]]
    /\ pc' = [pc EXCEPT ![Loop] = "reply"]
    /\ UNCHANGED <<lockVars, pipeline, requestVars, loc, faults_left, calltrace,
                   ghostVars, meta, files>>

\* POST /imgOcr (ocr.py:623-660): the request is taken up by the event loop
ImgOcr ==
    /\ LoopIdle
    /\ sync_uploads # <<>>
    /\ loc' = [loc EXCEPT ![Loop].image_paths = Head(sync_uploads)]
    /\ sync_uploads' = Tail(sync_uploads)
    /\ pc' = [pc EXCEPT ![Loop] = "loop_head"]
    /\ UNCHANGED <<job_storage, lockVars, pipeline, async_uploads, next_job,
                   faults_left, calltrace, ghostVars, meta, files, response>>

\* ocr.py:661-696 and 137-147: the next file is saved and enters
\* ocr_single_image, or the texts are joined and returned and the files removed
ImgOcrLoopHead ==
    /\ pc[Loop] = "loop_head"
    /\ IF loc[Loop].idx >= Len(loc[Loop].image_paths)
       THEN /\ response' = [op |-> "imgOcr", code |-> 200,
                            text |-> Join(loc[Loop].all_markdown_texts, PageSeparator)]
            /\ files' = {f \in files : f[1] # Loop}
            /\ loc' = [loc EXCEPT ![Loop] = NoLocals]
            /\ pc' = [pc EXCEPT ![Loop] = "reply"]
       ELSE IF pipeline = 0
            THEN ImageFailed(Loop)
            ELSE /\ files' = files \cup {<<Loop, loc[Loop].idx + 1>>}
                 /\ loc' = [loc EXCEPT ![Loop].retry_count = InitialRetryCount(@)]
                 /\ pc' = [pc EXCEPT ![Loop] = "predict_acq"]
                 /\ UNCHANGED response
    /\ calltrace' = [calltrace EXCEPT ![Loop] = <<>>]
    /\ UNCHANGED <<job_storage, lockVars, pipeline, requestVars, faults_left,
                   ghostVars, meta>>

\* ----------------------------------------------------------- specifications
\* the steps of a job whose engine calls, callback and cleanup all succeed
JobSteps ==
    \/ ImgOcrAsync
    \/ Reply
    \/ \E j \in JobIds : PickupAcquire(j)
    \/ \E j \in JobIds : Pickup(j)
    \/ \E j \in JobIds : RunnerLoopHead(j)
    \/ \E t \in Threads : PredictAcquire(t)
    \/ \E t \in Threads : PredictReturn(t)
    \/ \E j \in JobIds : Combine(j)
    \/ \E j \in JobIds : CompleteAcquire(j)
    \/ \E j \in JobIds : CompleteStatus(j)
    \/ \E j \in JobIds : CompleteText(j)
    \/ \E j \in JobIds : SendCallback(j)
    \/ \E j \in JobIds : Cleanup(j)

\* the engine raises
EngineFaults ==
    \/ \E t \in Threads : PredictTransientFault(t)
    \/ \E t \in Threads : PredictOtherFault(t)
    \/ \E t \in Threads : ReinitAcquire(t)
    \/ \E t \in Threads : ReinitReturn(t)
    \/ \E t \in Threads : ReinitFails(t)

\* the runner fails outside the loop over the images
JobFaults ==
    \/ \E j \in JobIds : CombineRaises(j)
    \/ \E j \in JobIds : FailAcquire(j)
    \/ \E j \in JobIds : FailStatus(j)
    \/ \E j \in JobIds : FailError(j)
    \/ \E j \in JobIds : FailMetaAcquire(j)
    \/ \E j \in JobIds : FailMeta(j)

\* the lookup of the display metadata of a job with a document id
MetadataLookup ==
    \/ \E j \in JobIds : LookupAnswered(j)
    \/ \E j \in JobIds : LookupFails(j)

\* the callback POST or the removal of a file fails
DeliveryFaults ==
    \/ \E j \in JobIds : SendCallbackFails(j)
    \/ \E j \in JobIds : CleanupWithFailures(j)

\* the job ids a client asks for: the ids given out so far and one id that
\* was never given out
AskedIds == {job_id \in JobIds : job_id <= next_job}

\* clients poll and delete
Polling ==
    \/ \E job_id \in AskedIds : GetJobStatus(job_id)
    \/ GetJobStatusRead
    \/ GetJobStatusCompleted
    \/ GetJobStatusFailed
    \/ GetJobStatusProcessing

Deleting == \E job_id \in AskedIds : DeleteJob(job_id)

\* clients use the synchronous endpoint
SyncRequests ==
    \/ ImgOcr
    \/ ImgOcrLoopHead

Next ==
    \/ JobSteps
    \/ EngineFaults
    \/ JobFaults
    \/ DeliveryFaults
    \/ Polling
    \/ Deleting
    \/ SyncRequests

\* one job of up to MaxImages images and MaxSync synchronous requests of one
\* image, with every fault, polled and deleted by the clients
Init ==
    InitWith([1..1 -> AsyncRequests({PlainPage}, 1..MaxImages)],
             [1..MaxSync -> Uploads({PlainPage}, {1})],
             {0, 1}, MaxFaults)

Spec == Init /\ [][Next]_vars

\* MaxJobs concurrent jobs of one image with a callback URL, with engine
\* faults; no client polls, deletes or uses the synchronous endpoint
NextConcurrent ==
    \/ JobSteps
    \/ EngineFaults

InitConcurrent ==
    InitWith([1..MaxJobs -> {r \in AsyncRequests({PlainPage}, {1}) : r.callback_url}],
             {<<>>}, {1}, MaxFaults)

SpecConcurrent == InitConcurrent /\ [][NextConcurrent]_vars

\* the texts of the pages of a document: a section, the same section
\* followed by a new section, the same section followed by a line and a
\* new section, and a page without header
SectionA == <<"#", "A", "\n", "a">>
SectionAB == SectionA \o <<"\n", "#", "B", "\n", "b">>
SectionAxB == SectionA \o <<"\n", "b", "\n", "#", "B", "\n", "a">>
Pages == {SectionA, SectionAB, SectionAxB, <<"b">>}

\* one job of 2..MaxPages pages with a callback URL; the engine fails on
\* any of its images with a fault that is not retried
NextPages ==
    \/ JobSteps
    \/ \E t \in Threads : PredictOtherFault(t)

InitPages ==
    InitWith([1..1 -> {r \in AsyncRequests(Pages, 2..MaxPages) : r.callback_url}],
             {<<>>}, {1}, 0)

SpecPages == InitPages /\ [][NextPages]_vars

\* the pages the Deduplicator is run on: a page without text, a page that
\* holds only the page-break marker, a page without header, a section, and
\* pages that repeat one of these and go on with a new section, with a
\* line and a new section, or with a line only
MarkerPage == <<PageBreakMark>>
LinePage == <<"a">>
LineThenB == LinePage \o <<"\n", "#", "B", "\n", "b">>
SectionAThenLine == SectionA \o <<"\n", "b">>
DedupPages ==
    {<<>>, MarkerPage, LinePage, LineThenB, SectionA, SectionAB, SectionAxB,
     SectionAThenLine}

\* one job of 2..MaxPages pages with a callback URL; no call fails
NextDedup == JobSteps

InitDedup ==
    InitWith([1..1 -> {r \in AsyncRequests(DedupPages, 2..MaxPages) : r.callback_url}],
             {<<>>}, {1}, 0)

SpecDedup == InitDedup /\ [][NextDedup]_vars

\* a page whose text reaches the length below which the result is logged as
\* short
LongPage == [i \in 1..MinTextLength |-> "a"]

\* the optional query parameters of the requests: none, a document id whose
\* sanitized form differs from it and an extraction result id, and the same
\* with a group name, or with a group name and a name
DocumentId == <<"a", "/", "1">>
WithDocument ==
    [document_id |-> Some(DocumentId), extraction_result_id |-> Some(<<"2">>),
     user_id |-> None, groupname |-> None, name |-> None]
Metas ==
    {NoMeta,
     WithDocument,
     [WithDocument EXCEPT !.groupname = Some(<<"b">>)],
     [WithDocument EXCEPT !.groupname = Some(<<"b">>), !.name = Some(<<"a">>)]}

\* one job of one image, with or without text, and with or without
\* document id; the lookup, the engine call, the statements after the loop
\* and the callback POST fail or not, and the client deletes
NextDocument ==
    \/ JobSteps
    \/ MetadataLookup
    \/ JobFaults
    \/ \E j \in JobIds : CombineRaisesBare(j)
    \/ \E t \in Threads : PredictOtherFault(t)
    \/ \E j \in JobIds : SendCallbackFails(j)
    \/ Deleting

InitDocument ==
    InitWith([1..1 -> AsyncRequestsWith({PlainPage, <<>>, LongPage}, {1}, Metas)],
             {<<>>}, {1}, 0)

SpecDocument == InitDocument /\ [][NextDocument]_vars

\* the texts the PostProcessor is run on: a letter split from its word, in a
\* line, in a header, after a marker without whitespace, twice in a line and
\* across several blanks; capitals that are not single letters or are not
\* followed by a lower-case letter; a capital at the end of a line; lines and
\* header contents with whitespace around them; a marker without content
SplitWord == <<"A", " ", "b">>
PostPages ==
    {SplitWord,
     <<"#", " ">> \o SplitWord \o <<" ", "a">>,
     <<"#">> \o SplitWord,
     SplitWord \o <<" ">> \o SplitWord,
     <<"A", " ", " ", "b">>,
     <<"a", "A", " ", "b">>,
     <<"A", "B", " ", "a">>,
     <<"a", " ", "B">>,
     <<"A", "\n", "b">>,
     <<"a", "\n">> \o SplitWord,
     <<" ", "a", " ">>,
     <<"#", " ", "a", " ">>,
     <<" ", "#", " ", "a">>,
     <<"#", " ", " ">>}

\* one job of one image, with or without callback URL; no call fails
NextPost == JobSteps

InitPost == InitWith([1..1 -> AsyncRequests(PostPages, {1})], {<<>>}, {1}, 0)

SpecPost == InitPost /\ [][NextPost]_vars

\* MaxJobs concurrent jobs of one image with a callback URL, whose runners
\* may fail outside the loop over the images, and one synchronous request,
\* while the clients poll and delete
NextShared ==
    \/ JobSteps
    \/ JobFaults
    \/ Polling
    \/ Deleting
    \/ SyncRequests

InitShared ==
    InitWith([1..MaxJobs -> {r \in AsyncRequests({PlainPage}, {1}) : r.callback_url}],
             [1..1 -> Uploads({PlainPage}, {1})], {1}, 0)

SpecShared == InitShared /\ [][NextShared]_vars

\* a step of the runner thread of job j that waits for no lock and makes no
\* call that may fail
RunnerStep(j) ==
    \/ Pickup(j)
    \/ RunnerLoopHead(j)
    \/ Combine(j)
    \/ CompleteStatus(j)
    \/ CompleteText(j)
    \/ SendCallback(j)
    \/ Cleanup(j)

\* the runner thread of job j enters a `with job_lock` block
StoreAcquire(j) == PickupAcquire(j) \/ CompleteAcquire(j)

\* the engine call of thread t ends: it returns or raises
EngineCallEnds(t) ==
    PredictReturn(t) \/ PredictTransientFault(t) \/ PredictOtherFault(t)

\* the reinitialization of thread t ends: it returns or raises
ReinitEnds(t) == ReinitReturn(t) \/ ReinitFails(t)

\* thread t takes its next step: a runner goes on in run_ocr_job, and any
\* thread enters or leaves an engine call or a reinitialization
ThreadStep(t) ==
    \/ t \in JobIds /\ (RunnerStep(t) \/ StoreAcquire(t))
    \/ PredictAcquire(t)
    \/ EngineCallEnds(t)
    \/ ReinitAcquire(t)
    \/ ReinitEnds(t)

\* a thread that can go on does: the threads are scheduled, every engine
\* call and every reinitialization ends, and a lock that stays free is taken
\* by a thread that waits for it
Fairness == \A t \in Threads : WF_vars(ThreadStep(t))

\* MaxJobs concurrent jobs of one image with a callback URL and an engine
\* that meets the transient fault once and may fail otherwise, with threads
\* that go on
InitLive ==
    InitWith([1..MaxJobs -> {r \in AsyncRequests({PlainPage}, {1}) : r.callback_url}],
             {<<>>}, {1}, 1)

SpecLive == InitLive /\ [][NextConcurrent]_vars

FairLive == SpecLive /\ Fairness

\* the images of the jobs of SpecRetry: job 1 has two, every other job one
RetryImages(j) == IF j = 1 THEN 2 ELSE 1

\* the images of the jobs 1..j of SpecRetry
RECURSIVE RetryImagesUpTo(_)
RetryImagesUpTo(j) == IF j = 0 THEN 0 ELSE RetryImages(j) + RetryImagesUpTo(j - 1)

\* the transient faults the engine has in store for the jobs of SpecRetry:
\* one more than max_retries + 1 for each image
RetryFaults == (max_retries + 1) * RetryImagesUpTo(MaxJobs) + 1

\* MaxJobs concurrent jobs with a callback URL; the engine meets the
\* transient fault as often as it likes and every reinitialization returns
NextRetry ==
    \/ JobSteps
    \/ \E t \in Threads : PredictTransientFault(t)
    \/ \E t \in Threads : ReinitAcquire(t)
    \/ \E t \in Threads : ReinitReturn(t)

InitRetry ==
    InitWith({a \in [1..MaxJobs -> {r \in AsyncRequests({PlainPage}, {1, 2}) : r.callback_url}] :
                 \A j \in 1..MaxJobs : Len(a[j].images) = RetryImages(j)},
             {<<>>}, {1}, RetryFaults)

SpecRetry == InitRetry /\ [][NextRetry]_vars

\* ------------------------------------------------------------------ claims
TerminalStatuses == {JOB_STATUS_COMPLETED, JOB_STATUS_FAILED}

\* what a client can observe of job j: its status, "absent" before it is
\* created and "removed" after it is deleted
ObservedStatus(j) ==
    IF InJobStorage(j) THEN job_storage[j].status
    ELSE IF pc[j] = "none" THEN "absent" ELSE "removed"

LifecycleSteps ==
    {<<"absent", JOB_STATUS_PENDING>>,
     <<JOB_STATUS_PENDING, JOB_STATUS_PROCESSING>>,
     <<JOB_STATUS_PROCESSING, JOB_STATUS_COMPLETED>>,
     <<JOB_STATUS_PROCESSING, JOB_STATUS_FAILED>>,
     <<JOB_STATUS_COMPLETED, "removed">>,
     <<JOB_STATUS_FAILED, "removed">>}

\* C1: every change of a job's observable status is one step of
\* Pending -> Processing -> (Completed | Failed) -> removed, so a terminal
\* status never reverts and no status is skipped or revisited; and the step
\* is taken by a thread inside job_lock (the runner holding it, or a handler
\* of the event loop that enters and leaves it in the step).
C1_StatusMonotonic ==
    [][\A j \in JobIds :
          ObservedStatus(j)' # ObservedStatus(j) =>
              /\ <<ObservedStatus(j), ObservedStatus(j)'>> \in LifecycleSteps
              /\ \/ job_lock = j
                 \/ job_lock = NoThread /\ pc[Loop] = "idle" /\ pc'[Loop] = "reply"]_vars

\* a job went through the whole sequence: its runner is over and its
\* record was deleted
C1_Witness ==
    \E j \in JobIds : pc[j] = "done" /\ ObservedStatus(j) = "removed"

\* the threads inside pipeline.predict
InPredict == {t \in Threads : pc[t] = "predict"}

\* C2: at most one call of pipeline.predict is in flight in the whole
\* process, whatever the number of jobs, and the thread making it holds
\* pipeline_lock.
C2_OneEngineCall ==
    /\ Cardinality(InPredict) <= 1
    /\ \A t \in InPredict : pipeline_lock = t

\* one runner is inside pipeline.predict while another waits for the lock
C2_Witness ==
    \E t, u \in Threads : pc[t] = "predict" /\ pc[u] = "predict_acq"

\* thread t is inside ocr_single_image
InCall(t) == pc[t] \in {"predict_acq", "predict", "reinit_acq", "reinit"}

Count(tr, events) == Cardinality({i \in DOMAIN tr : tr[i] \in events})

\* the call of ocr_single_image that thread t made last has raised
CallFailed(t) ==
    IF t = Loop
    THEN pc[Loop] = "reply" /\ response.op = "imgOcr" /\ response.code = 500
    ELSE /\ loc[t].idx >= 1
         /\ Len(loc[t].all_markdown_texts) = loc[t].idx
         /\ loc[t].all_markdown_texts[loc[t].idx] = ErrorPlaceholder(loc[t].idx)

\* every attempt of the call met the transient fault
Exhausted(tr) ==
    tr # <<>> /\ \A i \in DOMAIN tr : tr[i] \in {"transient", "reinit"}

\* C3: an adapter call whose every attempt meets the transient fault makes
\* exactly three attempts with a reinitialization after the first and after
\* the second, then fails; no call makes more than three attempts or two
\* reinitializations; a fault of any other class is the last event of its
\* call, which fails with no reinitialization or attempt after it, also
\* when earlier attempts were retried.
C3_RetryPolicy ==
    \A t \in Threads :
        LET tr == calltrace[t] IN
        /\ Count(tr, {"ok", "transient", "other"}) <= 3
        /\ Count(tr, {"reinit", "reinit_failed"}) <= 2
        /\ (~InCall(t) /\ Exhausted(tr)) =>
               /\ tr = <<"transient", "reinit", "transient", "reinit", "transient">>
               /\ CallFailed(t)
        /\ \A i \in DOMAIN tr :
               tr[i] = "other" => i = Len(tr) /\ ~InCall(t) /\ CallFailed(t)

\* a call has ended after three transient faults and two reinitializations
C3_Witness ==
    \E t \in Threads :
        /\ ~InCall(t)
        /\ calltrace[t] = <<"transient", "reinit", "transient", "reinit", "transient">>

\* `part in text` for texts
Contains(text, part) ==
    \E i \in 0..(Len(text) - Len(part)) : SubSeq(text, i + 1, i + Len(part)) = part

\* the runner of job j is past the loop over the images and has written
\* the outcome of the job
Finished(j) == pc[j] \in {"callback", "callback_fail", "cleanup"} /\ InJobStorage(j)

\* the images of job j whose call of ocr_single_image raised; no text the
\* engine reads off an image is a placeholder
FailedImages(j) ==
    {i \in DOMAIN loc[j].all_markdown_texts :
        loc[j].all_markdown_texts[i] = ErrorPlaceholder(i)}

\* what the runner has recorded for the image whose call just ended
RecordedLast(j) ==
    /\ Len(loc[j].all_markdown_texts) = loc[j].idx
    /\ IF calltrace[j][Len(calltrace[j])] = "ok"
       THEN loc[j].all_markdown_texts[loc[j].idx] =
                fix_title_spacing(loc[j].image_paths[loc[j].idx])
       ELSE CallFailed(j)

\* the lines of a text that are not blank, without the whitespace around them
LinesOf(text) ==
    LET lines == SplitOn(text, "\n") IN
    {Strip(lines[i]) : i \in {k \in 1..Len(lines) : Strip(lines[k]) # <<>>}}

\* C4: a job in which the processing of an image raised ends Completed, and
\* its result contains the placeholder of every image that failed and the
\* text (every line that is not blank) of every image that succeeded.
C4_PerImageFault ==
    \A j \in JobIds :
        (Finished(j) /\ FailedImages(j) # {}) =>
            /\ job_storage[j].status = JOB_STATUS_COMPLETED
            /\ job_storage[j].text # None
            /\ \A i \in DOMAIN loc[j].all_markdown_texts :
                   IF i \in FailedImages(j)
                   THEN Contains(job_storage[j].text[1], ErrorPlaceholder(i))
                   ELSE LinesOf(loc[j].all_markdown_texts[i])
                            \subseteq LinesOf(job_storage[j].text[1])

\* C5 as amended: a transient engine fault is retried inside the adapter;
\* when a retry succeeds the image's text is recorded, and when the retries
\* are exhausted the call fails for that image only: the runner records the
\* image's placeholder, and the job ends Completed unless an exception
\* outside the loop over the images was captured.
C5_TransientFault ==
    \A j \in JobIds :
        /\ (~InCall(j) /\ Count(calltrace[j], {"transient"}) > 0) => RecordedLast(j)
        /\ (Finished(j) /\ Count(calltrace[j], {"transient"}) > 0
                /\ loc[j].error_msg = None) =>
               job_storage[j].status = JOB_STATUS_COMPLETED

\* the job is Completed although the call for its last image met the
\* transient fault on all three attempts
C5_Witness ==
    \E j \in JobIds :
        /\ Finished(j)
        /\ Exhausted(calltrace[j])
        /\ Len(calltrace[j]) = 5
        /\ job_storage[j].status = JOB_STATUS_COMPLETED

\* C5 as stated: a job in which the adapter has exhausted its retries on a
\* transient fault ends Failed.
C5_Original ==
    \A j \in JobIds :
        (Finished(j) /\ Exhausted(calltrace[j])) =>
            job_storage[j].status = JOB_STATUS_FAILED

\* the step is the handling of DELETE for job_id
IsDelete(job_id) ==
    /\ pc[Loop] = "idle"
    /\ response'.op = "delete"
    /\ response'.id = job_id

\* C6: a delete of a Pending or Processing job is refused (400) and a delete
\* of an unknown id is answered 404, both leaving the store as it is; a
\* delete of a Completed or Failed job removes that record and no other; no
\* record leaves the store in any other way, so none is removed before its
\* runner has set a terminal status.
C6_DeleteOnlyTerminal ==
    [][\A job_id \in JobIds :
          /\ IsDelete(job_id) =>
                IF ~InJobStorage(job_id)
                THEN response'.code = 404 /\ job_storage' = job_storage
                ELSE IF job_storage[job_id].status
                            \in {JOB_STATUS_PENDING, JOB_STATUS_PROCESSING}
                THEN response'.code = 400 /\ job_storage' = job_storage
                ELSE /\ response'.code = 200
                     /\ job_storage' = [k \in DOMAIN job_storage \ {job_id} |->
                                            job_storage[k]]
          /\ (InJobStorage(job_id) /\ job_id \notin DOMAIN job_storage') =>
                /\ IsDelete(job_id)
                /\ job_storage[job_id].status \in TerminalStatuses]_vars

\* a delete was refused for a job that is Processing
C6_Witness ==
    /\ response.op = "delete"
    /\ response.code = 400
    /\ InJobStorage(response.id)
    /\ job_storage[response.id].status = JOB_STATUS_PROCESSING

\* C7: once the callback of a job has been sent, delivered or not, the
\* record of the job does not change any more (it can only be deleted): a
\* Completed job stays Completed with its text, a Failed job stays Failed
\* with its error.
C7_CallbackDecoupled ==
    [][\A j \in JobIds :
          (callbacks'[j] # <<>> /\ InJobStorage(j) /\ j \in DOMAIN job_storage') =>
              job_storage'[j] = job_storage[j]]_vars

\* the callback of a Completed job was not delivered, and the job is still
\* Completed after its runner has ended
C7_Witness ==
    \E j \in JobIds :
        /\ pc[j] = "done"
        /\ InJobStorage(j)
        /\ job_storage[j].status = JOB_STATUS_COMPLETED
        /\ callbacks[j] # <<>>
        /\ ~callbacks[j][1].delivered

\* C8: at most one callback POST is sent per job, and none when the job has
\* no callback URL; it is sent after the terminal status was written and
\* is sent for that status, with the text of a Completed job; it is not
\* sent again when the delivery failed.
C8_OneCallback ==
    \A j \in JobIds :
        /\ Len(callbacks[j]) <= 1
        /\ \A i \in DOMAIN callbacks[j] :
              LET cb == callbacks[j][i] IN
              /\ cb.status \in TerminalStatuses
              /\ InJobStorage(j) =>
                    /\ job_storage[j].callback_url
                    /\ job_storage[j].status = cb.status
                    /\ cb.status = JOB_STATUS_COMPLETED =>
                           job_storage[j].text = Some(cb.payload.text)

\* the one callback of a job was not delivered and its runner has ended
C8_Witness ==
    \E j \in JobIds :
        /\ pc[j] = "done"
        /\ Len(callbacks[j]) = 1
        /\ ~callbacks[j][1].delivered
        /\ InJobStorage(j)

\* C9: when a runner ends, on whichever path, os.remove has been called on
\* every temporary file of its job, so a file that is still there is one
\* whose removal failed; and the cleanup step leaves the job store as it is
\* and removes no file of another thread.
C9_CleanupAlways ==
    /\ [](\A j \in JobIds : pc[j] = "done" => FilesOf(j) \subseteq attempted)
    /\ [][\A j \in JobIds :
             (pc[j] = "cleanup" /\ pc'[j] = "done") =>
                 /\ job_storage' = job_storage
                 /\ files \ files' \subseteq FilesOf(j)]_vars

\* the runner of a Completed job has ended; the removal of its first file
\* failed and its second file was removed
C9_Witness ==
    \E j \in JobIds :
        /\ pc[j] = "done"
        /\ InJobStorage(j)
        /\ job_storage[j].status = JOB_STATUS_COMPLETED
        /\ <<j, 1>> \in files
        /\ <<j, 2>> \in attempted \ files

\* where a thread is while it holds job_lock
StoreSections ==
    {"pickup", "complete", "complete_text", "fail_status", "fail_error", "fail_meta"}

\* the steps that end an engine call or a store access of a runner
HolderSteps ==
    \/ \E t \in Threads : PredictReturn(t) \/ ReinitReturn(t)
    \/ \E j \in JobIds : \/ Pickup(j)
                         \/ CompleteStatus(j) \/ CompleteText(j)
                         \/ FailStatus(j) \/ FailError(j)
                         \/ FailMeta(j)

LockDiscipline ==
    /\ \A t \in Threads : ~(job_lock = t /\ pipeline_lock = t)
    /\ job_lock # NoThread => job_lock \in JobIds /\ pc[job_lock] \in StoreSections
    /\ pipeline_lock # NoThread => pc[pipeline_lock] \in {"predict", "reinit"}
    /\ \A t \in Threads : InCall(t) => job_lock # t
    /\ (job_lock # NoThread \/ pipeline_lock # NoThread) => ENABLED HolderSteps

\* C10: job_lock is held only inside one access of the store and never by a
\* thread that is in, or waits for, an engine call; no thread holds both
\* locks; whenever a lock is held its holder can go on without the other
\* lock, so there is no deadlock; and no status read or delete is held up by
\* a running engine call: the event loop, which serves them, is never
\* inside ocr_single_image while an engine call runs.
C10_LocksAndResponsiveness ==
    /\ LockDiscipline
    /\ \A t \in Threads : pc[t] \in {"predict", "reinit"} => ~InCall(Loop)

\* the event loop is sending the response of a status read that found the job
StatusReply ==
    pc[Loop] = "reply" /\ response.op = "status" /\ response.code = 200

\* C11: every response of a status read that reports Completed carries the
\* combined text stored for the job, every response that reports Failed
\* carries the error stored for the job, and no response carries the text,
\* the error or the start time together with another status.
C11_AuthoritativeRead ==
    StatusReply =>
        LET job == job_storage[response.id] IN
        /\ response.status = JOB_STATUS_COMPLETED =>
               response.text # None /\ response.text = job.text
        /\ response.status = JOB_STATUS_FAILED =>
               response.error # None /\ response.error = job.error
        /\ response.status # JOB_STATUS_COMPLETED => response.text = None
        /\ response.status # JOB_STATUS_FAILED => response.error = None
        /\ response.started => response.status = JOB_STATUS_PROCESSING

\* the runner of job j has captured an exception raised outside the loop
\* over the images and has left the store access that records it
FailureRecorded(j) ==
    /\ loc[j].error_msg # None
    /\ pc[j] \in {"fail_meta_acq", "fail_meta", "callback_fail", "cleanup"}

\* C12: when an exception is raised in the runner outside the loop over the
\* images, the job is set to Failed with the message of the exception as
\* its error; when the job has a callback URL one callback is sent, for
\* status Failed and without result text; and whatever happened, a job
\* whose runner has ended is Completed or Failed, never Pending or
\* Processing.
C12_UnrecoverableFault ==
    \A j \in JobIds :
        /\ (FailureRecorded(j) /\ InJobStorage(j)) =>
               /\ job_storage[j].status = JOB_STATUS_FAILED
               /\ job_storage[j].error = loc[j].error_msg
        /\ (FailureRecorded(j) /\ pc[j] = "cleanup" /\ loc[j].callback_url) =>
               /\ Len(callbacks[j]) = 1
               /\ callbacks[j][1].status = JOB_STATUS_FAILED
               /\ callbacks[j][1].payload.text = <<>>
        /\ (pc[j] = "done" /\ InJobStorage(j)) =>
               job_storage[j].status \in TerminalStatuses

\* the runner of a job with a callback URL has recorded the failure and
\* sent the failure callback
C12_Witness ==
    \E j \in JobIds :
        /\ FailureRecorded(j)
        /\ pc[j] = "cleanup"
        /\ loc[j].callback_url
        /\ InJobStorage(j)
        /\ job_storage[j].status = JOB_STATUS_FAILED

\* the per-image outputs of job j, the input of the Deduplicator
Texts(j) == loc[j].all_markdown_texts

\* the runner of job j has run the Deduplicator (two or more images)
DedupDone(j) ==
    /\ pc[j] \in {"complete_acq", "complete", "complete_text", "callback", "cleanup"}
    /\ Len(Texts(j)) >= 2

\* the comparison form of the page is not empty
NonBlank(text) == Normalized(text) # <<>>

\* the position in the output of what is kept for page i
KeptIndex(texts, i) == Cardinality({m \in 1..i : NonBlank(texts[m])})

\* the comparison form of the last page before page i that is not blank
RECURSIVE BaselineOf(_, _)
BaselineOf(texts, i) ==
    IF i <= 1 THEN <<>>
    ELSE IF NonBlank(texts[i - 1]) THEN Normalized(texts[i - 1])
    ELSE BaselineOf(texts, i - 1)

\* the comparison form of page i is a strictly longer extension of the baseline
Extends(texts, i) ==
    LET n == Normalized(texts[i])
        b == BaselineOf(texts, i)
    IN Len(n) > Len(b) /\ SubSeq(n, 1, Len(b)) = b

\* the procedure run again on the pages it kept
Rerun(kept) == IF Len(kept) > 1 THEN DeduplicatedTexts(kept) ELSE kept

\* C13: deduplication is idempotent: the procedure applied to the pages it
\* kept gives the same pages again.
C13_Idempotent ==
    \A j \in JobIds :
        DedupDone(j) => Rerun(DeduplicatedTexts(Texts(j))) = DeduplicatedTexts(Texts(j))

\* C14: for two or more pages the combined text is empty after trimming
\* only if every input page is empty after trimming.
C14_NeverEmpty ==
    \A j \in JobIds :
        (DedupDone(j) /\ Strip(loc[j].combined_markdown) = <<>>) =>
            \A i \in DOMAIN Texts(j) : Strip(Texts(j)[i]) = <<>>

\* no page of the job is kept, one of them has content, and the combined
\* text is the join of the original pages
C14_Witness ==
    \E j \in JobIds :
        /\ DedupDone(j)
        /\ DeduplicatedTexts(Texts(j)) = <<>>
        /\ \E i \in DOMAIN Texts(j) : Strip(Texts(j)[i]) # <<>>
        /\ Strip(loc[j].combined_markdown) # <<>>

\* what page i adds to page i - 1 when it is that page, a line break and more
AddedTo(texts, i) == SubSeq(texts[i], Len(texts[i - 1]) + 2, Len(texts[i]))

\* s is one section: a header that is not a header of prev, then lines that
\* are not headers, with no blank around it
IsNewSection(s, prev) ==
    LET lines == SplitOn(s, "\n") IN
    /\ s # <<>>
    /\ s = Strip(s)
    /\ IsHeaderLine(lines[1])
    /\ HeaderText(lines[1]) \notin PrevHeaders(prev)
    /\ \A k \in 2..Len(lines) : ~IsHeaderLine(lines[k])

\* every page after the first is the page before it followed by one new section
CumulativeChain(texts) ==
    /\ NonBlank(texts[1])
    /\ \A i \in 2..Len(texts) :
          /\ Len(texts[i]) > Len(texts[i - 1]) + 1
          /\ SubSeq(texts[i], 1, Len(texts[i - 1]) + 1) = texts[i - 1] \o <<"\n">>
          /\ IsNewSection(AddedTo(texts, i), texts[i - 1])

\* C15: when every page after the first is the page before it followed by
\* one new section, the pages kept are page 1 verbatim and, for each later
\* page, exactly its new section, and the combined text is their join by
\* the page-break separator.
C15_CumulativeChain ==
    \A j \in JobIds :
        (DedupDone(j) /\ CumulativeChain(Texts(j))) =>
            LET expected == [i \in 1..Len(Texts(j)) |->
                                IF i = 1 THEN Texts(j)[1] ELSE AddedTo(Texts(j), i)]
            IN /\ DeduplicatedTexts(Texts(j)) = expected
               /\ loc[j].combined_markdown = Join(expected, PageSeparator)

\* page i is in the output, whole, at its place among the pages kept
KeptWhole(texts, i) ==
    /\ KeptIndex(texts, i) \in DOMAIN DeduplicatedTexts(texts)
    /\ DeduplicatedTexts(texts)[KeptIndex(texts, i)] = texts[i]

\* C16 as amended: a page whose comparison form is not empty and is not a
\* strictly longer extension of the baseline (the comparison form of the
\* last page kept) is kept in full and unmodified, at its place in the
\* order of the input.
C16_DistinctPageKept ==
    \A j \in JobIds :
        DedupDone(j) =>
            \A i \in DOMAIN Texts(j) :
                (NonBlank(Texts(j)[i]) /\ ~Extends(Texts(j), i)) => KeptWhole(Texts(j), i)

\* the second page of the job has text and does not extend the first
C16_Witness ==
    \E j \in JobIds :
        /\ DedupDone(j)
        /\ NonBlank(Texts(j)[1])
        /\ NonBlank(Texts(j)[2])
        /\ ~Extends(Texts(j), 2)

\* C16 as stated: a page whose comparison form is not a strictly longer
\* extension of the baseline is kept in full and unmodified.
C16_Original ==
    \A j \in JobIds :
        DedupDone(j) =>
            \A i \in DOMAIN Texts(j) : ~Extends(Texts(j), i) => KeptWhole(Texts(j), i)

\* the baseline after the first page
BaselineAfterFirst(texts) ==
    DedupLoop(SubSeq(texts, 1, 1), 1,
              [deduplicated_texts |-> <<>>, previous_normalized |-> <<>>]).previous_normalized

\* C17 as amended: for two or more pages, a first page whose comparison form
\* is not empty is kept verbatim as the first element of the output, and
\* the baseline for page 2 is the comparison form of page 1.
C17_FirstPageVerbatim ==
    \A j \in JobIds :
        DedupDone(j) =>
            /\ BaselineAfterFirst(Texts(j)) = Normalized(Texts(j)[1])
            /\ NonBlank(Texts(j)[1]) =>
                   /\ DeduplicatedTexts(Texts(j)) # <<>>
                   /\ DeduplicatedTexts(Texts(j))[1] = Texts(j)[1]

\* the first page of the job has text and the second page extends it
C17_Witness ==
    \E j \in JobIds :
        /\ DedupDone(j)
        /\ NonBlank(Texts(j)[1])
        /\ Extends(Texts(j), 2)

\* C17 as stated: for two or more pages the first page is kept verbatim as
\* the first element of the output and the baseline for page 2 is the
\* comparison form of page 1.
C17_Original ==
    \A j \in JobIds :
        DedupDone(j) =>
            /\ BaselineAfterFirst(Texts(j)) = Normalized(Texts(j)[1])
            /\ DeduplicatedTexts(Texts(j)) # <<>>
            /\ DeduplicatedTexts(Texts(j))[1] = Texts(j)[1]

\* the index of the first header line of the page, or 0
FirstHeader(text) ==
    LET lines == SplitOn(text, "\n")
        hs == {k \in 1..Len(lines) : IsHeaderLine(lines[k])}
    IN IF hs = {} THEN 0 ELSE CHOOSE k \in hs : \A m \in hs : k <= m

\* the lines of the page from its first header on
FromFirstHeader(text) ==
    LET lines == SplitOn(text, "\n") IN
    Strip(Join(SubSeq(lines, FirstHeader(text), Len(lines)), <<"\n">>))

\* C18: in the cumulative case, when the page before has no header line,
\* what is kept of a page that has a header is its lines from the first
\* header on; the lines before its first header are not kept.
C18_HeaderlessPrevious ==
    \A j \in JobIds :
        DedupDone(j) =>
            \A i \in 2..Len(Texts(j)) :
                (/\ Extends(Texts(j), i)
                 /\ PrevHeaders(Texts(j)[i - 1]) = {}
                 /\ FirstHeader(Texts(j)[i]) > 0) =>
                    DeduplicatedTexts(Texts(j))[KeptIndex(Texts(j), i)]
                        = FromFirstHeader(Texts(j)[i])

\* the page has no header line that is not a header of prev
NoNewHeader(text, prev) ==
    LET lines == SplitOn(text, "\n") IN
    \A k \in 1..Len(lines) :
        IsHeaderLine(lines[k]) => HeaderText(lines[k]) \in PrevHeaders(prev)

\* C19: in the cumulative case, when the header scan of the page finds no
\* new section, the whole page is kept unmodified; and every page whose
\* comparison form is not empty has its own element in the output, and
\* that element has text.
C19_FallbackWholePage ==
    \A j \in JobIds :
        DedupDone(j) =>
            /\ Len(DeduplicatedTexts(Texts(j))) = KeptIndex(Texts(j), Len(Texts(j)))
            /\ \A i \in DOMAIN Texts(j) :
                  NonBlank(Texts(j)[i]) =>
                      Strip(DeduplicatedTexts(Texts(j))[KeptIndex(Texts(j), i)]) # <<>>
            /\ \A i \in 2..Len(Texts(j)) :
                  (Extends(Texts(j), i) /\ NoNewHeader(Texts(j)[i], Texts(j)[i - 1])) =>
                      KeptWhole(Texts(j), i)

\* the second page repeats the first and goes on without a new header
C19_Witness ==
    \E j \in JobIds :
        /\ DedupDone(j)
        /\ NonBlank(Texts(j)[1])
        /\ PrevHeaders(Texts(j)[1]) # {}
        /\ Extends(Texts(j), 2)
        /\ NoNewHeader(Texts(j)[2], Texts(j)[1])

\* C20: for a job of exactly one image the Deduplicator is not run: the
\* result text of the job is exactly the post-processed text of that image,
\* or its error placeholder, with no separator added and nothing removed.
C20_SingleImage ==
    \A j \in JobIds :
        (/\ Finished(j)
         /\ Len(loc[j].image_paths) = 1
         /\ job_storage[j].status = JOB_STATUS_COMPLETED) =>
            /\ Len(Texts(j)) = 1
            /\ loc[j].combined_markdown = Texts(j)[1]
            /\ job_storage[j].text = Some(Texts(j)[1])
            /\ Texts(j)[1] \in {fix_title_spacing(loc[j].image_paths[1]), ErrorPlaceholder(1)}

\* a job of one image is Completed with the post-processed text of the image
C20_Witness ==
    \E j \in JobIds :
        /\ Finished(j)
        /\ Len(loc[j].image_paths) = 1
        /\ job_storage[j].status = JOB_STATUS_COMPLETED
        /\ job_storage[j].text = Some(fix_title_spacing(loc[j].image_paths[1]))

\* the optional query parameters of the request that made job j
Submitted(j) == IF j \in DOMAIN submitted THEN submitted[j] ELSE NoMeta

\* the body carries the three ids of the request, "" for one it did not give
CarriesIds(j, payload) ==
    /\ payload.extraction_result_id = OrEmpty(Submitted(j).extraction_result_id)
    /\ payload.document_id = OrEmpty(Submitted(j).document_id)
    /\ payload.user_id = OrEmpty(Submitted(j).user_id)

\* the body of a success callback: the combined text and no error field
SuccessBody(j, payload) ==
    /\ payload.error = None
    /\ pc[j] = "cleanup" => payload.text = loc[j].combined_markdown
    /\ InJobStorage(j) => job_storage[j].text = Some(payload.text)

\* the body of a failure callback: text "" and the captured message as error
FailureBody(j, payload) ==
    /\ payload.text = <<>>
    /\ payload.error # None
    /\ pc[j] = "cleanup" => payload.error = loc[j].error_msg
    /\ InJobStorage(j) => job_storage[j].error = payload.error

\* C21: the callback body of a Completed job holds the combined text and no
\* error field; the body of a Failed job holds text "" and an error field
\* with the captured message, so that it differs from every success body;
\* both carry the extraction_result_id, document_id and user_id of the job.
C21_CallbackBody ==
    \A j \in JobIds :
        \A i \in DOMAIN callbacks[j] :
            LET cb == callbacks[j][i] IN
            /\ cb.status = JOB_STATUS_COMPLETED => SuccessBody(j, cb.payload)
            /\ cb.status = JOB_STATUS_FAILED => FailureBody(j, cb.payload)
            /\ CarriesIds(j, cb.payload)

\* the threads whose engine call or reinitialization is in flight
InFlight == {t \in Threads : pc[t] \in {"predict", "reinit"}}

\* C22: an engine call in flight runs on the instance the global holds: a
\* call that starts after a reinitialization, by any task, runs on the new
\* instance, no task goes on with a replaced instance, and the instance is
\* not replaced while a call of another task is in flight.
C22_ReinitVisible ==
    /\ \A t \in Threads : pc[t] = "predict" => loc[t].engine = pipeline
    /\ \A t \in Threads : pc[t] = "reinit" => InFlight = {t}

\* a task that has not reinitialized the engine makes a call on the second
\* instance, which another task has put in place
C22_Witness ==
    \E t, u \in JobIds :
        /\ t # u
        /\ pc[t] = "predict"
        /\ loc[t].engine = 2
        /\ Count(calltrace[t], {"reinit"}) = 0
        /\ Count(calltrace[u], {"reinit"}) > 0

\* the jobs whose record holds a terminal status
TerminalJobs == {j \in DOMAIN job_storage : job_storage[j].status \in TerminalStatuses}

\* the threads that wait for the engine mutex to make an engine call
WaitingForEngine == {t \in Threads : pc[t] = "predict_acq"}

\* C27: jobs need not complete in the order of submission: whenever tasks
\* wait for the free engine mutex, any of them may take it, whichever job
\* was submitted first.
C27_NoCompletionOrder ==
    pipeline_lock = NoThread =>
        \A t \in WaitingForEngine : ENABLED PredictAcquire(t)

\* the job submitted second has a terminal status while the job submitted
\* first is still Pending or Processing
C27_Witness ==
    /\ 2 \in TerminalJobs
    /\ InJobStorage(1)
    /\ 1 \notin TerminalJobs

\* the tasks that met the transient fault on an instance and have not yet
\* replaced it, with that instance
ObservedFaulty(t) == pc[t] \in {"reinit_acq", "reinit"}

LookupFailed == {j \in DOMAIN meta : meta[j].fetch_error # None}

\* the value the runner uses for an optional parameter after a failed lookup:
\* the value of the request, the sanitized document id when there is none
FallbackOf(j, given) ==
    IF Truthy(given) THEN given ELSE Some(Sanitized(Submitted(j).document_id[1]))

\* C23: when the metadata lookup of a job with a document id fails (timeout,
\* status other than 200, malformed or unsuccessful body), each of group name
\* and name is the value the request gave, and the sanitized document id
\* when the request gave none.
C23_LookupFallback ==
    \A j \in LookupFailed :
        /\ meta[j].groupname = FallbackOf(j, Submitted(j).groupname)
        /\ meta[j].name = FallbackOf(j, Submitted(j).name)

\* a lookup has failed for a job whose request gave a document id with a
\* character that is replaced, a group name and no name
C23_Witness ==
    \E j \in LookupFailed :
        /\ Submitted(j).groupname = Some(<<"b">>)
        /\ Submitted(j).name = None
        /\ meta[j].groupname = Some(<<"b">>)
        /\ meta[j].name = Some(<<"a", "_", "1">>)

\* C23 as stated: after a failed lookup group name and name are the
\* sanitized document id.
C23_Original ==
    \A j \in LookupFailed :
        /\ meta[j].groupname = Some(Sanitized(Submitted(j).document_id[1]))
        /\ meta[j].name = Some(Sanitized(Submitted(j).document_id[1]))

\* C24: whatever the outcome of the metadata lookup (it raises, or the
\* document of the answer lacks group_name or file_name), the step leaves
\* the job Processing, captures no error, and the runner is at the head of
\* the loop over the images with no image processed yet.
C24_LookupNeverFails ==
    [][\A j \in JobIds :
          (pc[j] = "lookup" /\ pc'[j] # "lookup") =>
              /\ pc'[j] = "loop_head"
              /\ loc'[j].idx = 0
              /\ loc'[j].error_msg = None
              /\ InJobStorage(j)'
              /\ job_storage'[j].status = JOB_STATUS_PROCESSING]_vars

\* a runner whose lookup timed out is in the engine call of its image
C24_Witness ==
    \E j \in LookupFailed :
        /\ meta[j].fetch_error = Some("timeout")
        /\ pc[j] = "predict"
        /\ job_storage[j].status = JOB_STATUS_PROCESSING

\* the runners that are done with a combined text and no captured error
CombinedAndDone(j) ==
    /\ pc[j] = "cleanup"
    /\ loc[j].error_msg = None

\* C29: a combined text shorter than the threshold, the empty text and a
\* text of error placeholders included, does not change the outcome: the
\* job is Completed with that text and the success callback is sent.
C29_ShortTextCompleted ==
    \A j \in JobIds :
        (CombinedAndDone(j) /\ ShortText(loc[j].combined_markdown)) =>
            /\ InJobStorage(j) =>
                  /\ job_storage[j].status = JOB_STATUS_COMPLETED
                  /\ job_storage[j].text = Some(loc[j].combined_markdown)
                  /\ job_storage[j].error = None
            /\ loc[j].callback_url =>
                  /\ Len(callbacks[j]) = 1
                  /\ callbacks[j][1].status = JOB_STATUS_COMPLETED
                  /\ callbacks[j][1].payload.text = loc[j].combined_markdown

\* a job whose only image failed is Completed with the error placeholder as
\* its text and its success callback is sent
C29_Witness ==
    \E j \in JobIds :
        /\ CombinedAndDone(j)
        /\ ShortText(loc[j].combined_markdown)
        /\ Contains(loc[j].combined_markdown, <<"[", "1", "]">>)
        /\ InJobStorage(j)
        /\ job_storage[j].status = JOB_STATUS_COMPLETED
        /\ Len(callbacks[j]) = 1

\* position p of s is whitespace between a single upper-case letter at the
\* start of a word and the lower-case letter that follows the whitespace
IsGap(s, p) ==
    /\ IsSpace(s[p])
    /\ \E i \in 1..(p - 1), k \in (p + 1)..Len(s) :
          /\ s[i] \in Upper
          /\ i = 1 \/ ~IsWordChar(s[i - 1])
          /\ \A q \in (i + 1)..(k - 1) : IsSpace(s[q])
          /\ s[k] \in Lower

\* s without the whitespace of the split-first-letter pattern
Rejoined(s) ==
    LET kept == SelectSeq([p \in 1..Len(s) |-> p], LAMBDA p : ~IsGap(s, p))
    IN [n \in 1..Len(kept) |-> s[kept[n]]]

\* the header marker of a line: its # characters and the whitespace after them
MarkerOf(line) == SubSeq(line, 1, HeaderPrefixLen(line))

\* line `fixed` is line `line` with its split first letters rejoined, up to
\* the whitespace around the line, and with the header marker of the line
LineCorrected(line, fixed) ==
    /\ Strip(fixed) = Strip(Rejoined(line))
    /\ StartsWith(line, <<"#">>) =>
          /\ StartsWith(fixed, MarkerOf(line))
          /\ Strip(SubSeq(fixed, Len(MarkerOf(line)) + 1, Len(fixed)))
                = Strip(Rejoined(SubSeq(line, Len(MarkerOf(line)) + 1, Len(line))))

\* the images of job j whose text the PostProcessor has returned
PostProcessed(j) == 1..Len(Texts(j))

\* C25: the PostProcessor rejoins a single upper-case letter with the
\* lower-case letter that follows it after whitespace, line by line: every
\* line of the input gives one line of the output, and on a header line the
\* marker (the # characters and the whitespace after them) is kept as it
\* was and the text after it is corrected.
C25_SplitLetterRejoined ==
    \A j \in JobIds : \A i \in PostProcessed(j) :
        LET lines == SplitOn(loc[j].image_paths[i], "\n")
            fixed_lines == SplitOn(Texts(j)[i], "\n")
        IN /\ Len(fixed_lines) = Len(lines)
           /\ \A n \in 1..Len(lines) : LineCorrected(lines[n], fixed_lines[n])

\* the header line "# A b a" has become "# Ab a"
C25_Witness ==
    \E j \in JobIds : \E i \in PostProcessed(j) :
        /\ loc[j].image_paths[i] = <<"#", " ", "A", " ", "b", " ", "a">>
        /\ Texts(j)[i] = <<"#", " ", "A", "b", " ", "a">>

\* C26: the PostProcessor changes nothing but the split-first-letter
\* pattern: its output is its input without the whitespace between a single
\* upper-case letter and the lower-case letter that follows, the whitespace
\* at the start and at the end of each line included.
C26_NothingElseChanged ==
    \A j \in JobIds : \A i \in PostProcessed(j) :
        LET lines == SplitOn(loc[j].image_paths[i], "\n") IN
        Texts(j)[i] = Join([n \in 1..Len(lines) |-> Rejoined(lines[n])], <<"\n">>)

\* what the record of job j holds as status, result text and error
Outcome(j) == <<job_storage[j].status, job_storage[j].text, job_storage[j].error>>

\* the step is one of thread t and of no other thread
StepOf(t) == pc'[t] # pc[t] /\ \A u \in Threads \ {t} : pc'[u] = pc[u]

\* the step is a delete that the endpoint accepts for job j
AcceptedDelete(j) ==
    /\ StepOf(Loop)
    /\ job_storage[j].status \in TerminalStatuses
    /\ response' = [op |-> "delete", id |-> j, code |-> 200]

\* C28: the status, the result text and the error of an existing record
\* change only in a step of the runner of its job, made under job_lock: a
\* status read, a refused delete, the runner of another job and the
\* synchronous endpoint leave them as they are; a record goes away only by
\* an accepted delete of a job with a terminal status.
C28_OnlyRunnerWrites ==
    [][\A j \in DOMAIN job_storage :
          IF j \in DOMAIN job_storage'
          THEN Outcome(j)' # Outcome(j) => StepOf(j) /\ job_lock = j
          ELSE AcceptedDelete(j)]_vars

\* a delete of the Processing job 2 has been refused while job 1 is
\* Completed with its text, and both records are as their runners left them
C28_Witness ==
    /\ response = [op |-> "delete", id |-> 2, code |-> 400]
    /\ InJobStorage(1)
    /\ InJobStorage(2)
    /\ Outcome(1) = <<JOB_STATUS_COMPLETED, Some(PlainPage), None>>
    /\ Outcome(2) = <<JOB_STATUS_PROCESSING, None, None>>

\* the threads that wait for the engine mutex
WaitingForMutex == {t \in Threads : pc[t] \in {"predict_acq", "reinit_acq"}}

\* the event that ended the call of ocr_single_image thread t made last
LastEvent(t) ==
    IF calltrace[t] = <<>> THEN "none" ELSE calltrace[t][Len(calltrace[t])]

\* C32: the engine mutex is released on every way out of an engine call and
\* of a reinitialization: it is held only by a thread inside pipeline.predict
\* or inside the reinitialization, so whenever no thread is inside either it
\* is free and every thread that waits for it can take it.
C32_MutexReleased ==
    /\ \A t \in Threads : pipeline_lock = t => t \in InFlight
    /\ InFlight = {} =>
          /\ pipeline_lock = NoThread
          /\ \A t \in WaitingForMutex :
                ENABLED (PredictAcquire(t) \/ ReinitAcquire(t))

\* the call of one task has ended by a failed reinitialization and another
\* task is inside the engine call
C32_Witness ==
    \E t, u \in JobIds :
        /\ t # u
        /\ ~InCall(t)
        /\ LastEvent(t) = "reinit_failed"
        /\ pc[u] = "predict"
        /\ pipeline_lock = u

\* the step ends the call of thread t by a failed reinitialization
ReinitFailedStep(t) == pc[t] = "reinit" /\ LastEvent(t)' = "reinit_failed"

\* C36: when the reinitialization after a transient fault fails, the call
\* of ocr_single_image fails in that step, with no engine attempt after it,
\* the global engine variable holds the instance it held before, which is
\* never unset, and the engine mutex is free for the calls that follow.
C36_FailedReinit ==
    /\ [](pipeline # 0)
    /\ [][\A t \in Threads :
             ReinitFailedStep(t) =>
                 /\ pipeline' = pipeline
                 /\ ~InCall(t)'
                 /\ CallFailed(t)'
                 /\ pipeline_lock' = NoThread]_vars
    /\ [](\A t \in Threads : \A i \in DOMAIN calltrace[t] :
             calltrace[t][i] = "reinit_failed" => i = Len(calltrace[t]))

\* after the reinitialization of one task failed, another task is inside an
\* engine call on the first instance, which is still the one in place
C36_Witness ==
    \E t, u \in JobIds :
        /\ t # u
        /\ LastEvent(t) = "reinit_failed"
        /\ CallFailed(t)
        /\ pc[u] = "predict"
        /\ calltrace[u] = <<>>
        /\ loc[u].engine = 1
        /\ pipeline = 1

\* the transient faults the engine calls have met, and the
\* reinitializations that have returned, since the start
TransientMet == RetryFaults - faults_left
Reinitializations == pipeline - 1

\* C35: the retry budget belongs to one call of ocr_single_image: while a
\* call runs, the retries it has used are the transient faults it has met
\* itself, none at its start, whatever earlier calls of the same job or
\* calls of other jobs have used; so a call fails by transient faults only
\* after three attempts, and the jobs, with n images in all, meet at most
\* 3n transient faults and make at most 2n reinitializations.
C35_RetryBudgetPerCall ==
    /\ \A t \in Threads :
          InCall(t) => loc[t].retry_count = Count(calltrace[t], {"transient"})
    /\ \A t \in Threads :
          (~InCall(t) /\ LastEvent(t) = "transient") =>
              /\ Count(calltrace[t], {"transient"}) = max_retries + 1
              /\ Count(calltrace[t], {"reinit"}) = max_retries
    /\ TransientMet <= (max_retries + 1) * RetryImagesUpTo(MaxJobs)
    /\ Reinitializations <= max_retries * RetryImagesUpTo(MaxJobs)

\* the first image of job 1 and the image of job 2 have used up their
\* retries and failed, and the second image of job 1 is being retried
C35_Witness ==
    /\ loc[1].idx = 1
    /\ loc[1].all_markdown_texts = <<ErrorPlaceholder(1)>>
    /\ pc[1] = "reinit"
    /\ loc[1].retry_count = 1
    /\ LastEvent(2) = "transient"
    /\ CallFailed(2)
    /\ TransientMet = 2 * (max_retries + 1) + 1

\* the record of job j holds a result text, an error message
HoldsText(j) == job_storage[j].text # None
HoldsError(j) == job_storage[j].error # None

\* C37: whenever no thread is inside a `with job_lock` block, a record
\* holds a result text only if its status is Completed and an error message
\* only if its status is Failed, never both, and a Pending or Processing
\* record holds neither.
C37_OutcomeMatchesStatus ==
    job_lock = NoThread =>
        \A j \in DOMAIN job_storage :
            /\ HoldsText(j) => job_storage[j].status = JOB_STATUS_COMPLETED
            /\ HoldsError(j) => job_storage[j].status = JOB_STATUS_FAILED
            /\ ~(HoldsText(j) /\ HoldsError(j))
            /\ job_storage[j].status \in {JOB_STATUS_PENDING, JOB_STATUS_PROCESSING} =>
                  ~HoldsText(j) /\ ~HoldsError(j)

\* a Failed record holds its error message and no text after the runner of
\* its job has ended, with no thread inside a `with job_lock` block
C37_Witness ==
    \E j \in DOMAIN job_storage :
        /\ job_lock = NoThread
        /\ pc[j] = "done"
        /\ job_storage[j].status = JOB_STATUS_FAILED
        /\ job_storage[j].error = Some("fault")
        /\ ~HoldsText(j)

\* the id of job j was given out and its record is not in the store: the
\* record has been removed by a delete
Removed(j) == j < next_job /\ ~InJobStorage(j)

\* the step answers a status read or a delete of the id of job j
AnswersFor(j) ==
    /\ response' # response
    /\ response'.op \in {"status", "delete"}
    /\ response'.id = j

\* C33: once the record of a job has been removed by a delete it is never
\* in the store again, whatever steps the runner of the job still makes
\* (the re-read of the ids, the callback, the cleanup), and every later
\* status read or delete of its id is answered 404.
C33_RemovedForGood ==
    [][\A j \in JobIds :
          Removed(j) =>
              /\ ~InJobStorage(j)'
              /\ AnswersFor(j) => response'.code = 404]_vars

\* the record of a Failed job has been removed, a status read of its id has
\* been answered 404, and the runner of the job has yet to send the callback
C33_Witness ==
    \E j \in JobIds :
        /\ Removed(j)
        /\ pc[j] \in {"fail_meta_acq", "fail_meta", "callback_fail"}
        /\ response = [op |-> "status", id |-> j, code |-> 404]

\* what is kept for page i of texts
KeptFor(texts, i) == DeduplicatedTexts(texts)[KeptIndex(texts, i)]

\* C38: deduplication removes only repeated content: for a cumulative page
\* (one whose comparison form extends the baseline), every line of the page
\* that is not blank and does not occur in the page before it is in the
\* text kept for the page.
C38_OnlyRepeatsRemoved ==
    \A j \in JobIds :
        DedupDone(j) =>
            \A i \in 2..Len(Texts(j)) :
                Extends(Texts(j), i) =>
                    (LinesOf(Texts(j)[i]) \ LinesOf(Texts(j)[i - 1]))
                        \subseteq LinesOf(KeptFor(Texts(j), i))

\* what the loop over the images records for image i of job j: the
\* post-processed text of the image, or its error placeholder
OutcomesOf(j, i) ==
    {fix_title_spacing(loc[j].image_paths[i]), ErrorPlaceholder(i)}

\* the runner of job j is past the loop over the images
LoopOver(j) ==
    pc[j] \in {"combine", "complete_acq", "complete", "complete_text", "callback",
               "cleanup"}

\* page i of texts repeats what came before it and goes on
Cumulative(texts, i) == BaselineOf(texts, i) # <<>> /\ Extends(texts, i)

\* the pages of texts from page i on that are kept whole, in input order
RECURSIVE WholePagesFrom(_, _)
WholePagesFrom(texts, i) ==
    IF i > Len(texts) THEN <<>>
    ELSE (IF NonBlank(texts[i]) /\ ~Cumulative(texts, i) THEN <<texts[i]>> ELSE <<>>)
         \o WholePagesFrom(texts, i + 1)

\* the parts occur in text one after the other, without overlap
RECURSIVE OccurInOrder(_, _)
OccurInOrder(parts, text) ==
    IF parts = <<>> THEN TRUE
    ELSE LET p == Head(parts)
             starts == {s \in 0..(Len(text) - Len(p)) :
                           SubSeq(text, s + 1, s + Len(p)) = p}
         IN /\ starts # {}
            /\ LET s == CHOOSE m \in starts : \A n \in starts : m <= n
               IN OccurInOrder(Tail(parts), SubSeq(text, s + Len(p) + 1, Len(text)))

\* C34: the loop over the images records one entry per image, in input
\* order: while it runs there are as many entries as images done, entry i
\* being the text or the error placeholder of image i, and the image in
\* process is the next one; when it ends there are exactly n entries for n
\* images; and the pages kept whole occur in the combined text in input
\* order.
C34_OneEntryPerImage ==
    \A j \in JobIds :
        /\ Len(Texts(j)) = loc[j].idx
        /\ loc[j].idx <= Len(loc[j].image_paths)
        /\ \A i \in 1..Len(Texts(j)) : Texts(j)[i] \in OutcomesOf(j, i)
        /\ InCall(j) => loc[j].idx < Len(loc[j].image_paths)
        /\ LoopOver(j) => Len(Texts(j)) = Len(loc[j].image_paths)
        /\ DedupDone(j) =>
              OccurInOrder(WholePagesFrom(Texts(j), 1), loc[j].combined_markdown)

\* a job of three images whose second image failed has combined the text of
\* the first, the placeholder of the second and the text of the third
C34_Witness ==
    \E j \in JobIds :
        /\ DedupDone(j)
        /\ Len(loc[j].image_paths) = 3
        /\ Texts(j) = <<loc[j].image_paths[1], ErrorPlaceholder(2), loc[j].image_paths[3]>>
        /\ WholePagesFrom(Texts(j), 1) = Texts(j)

\* the runner of job j has ended and the record holds a terminal status
Settled(j) == pc[j] = "done" /\ j \in TerminalJobs

\* C31: every accepted job reaches status Completed or Failed and its
\* runner ends, for MaxJobs concurrent jobs, when every thread that can go on
\* does (every engine call and every reinitialization ends, a free mutex is
\* taken by a waiting thread): again and again every job accepted so far has
\* a terminal status and an ended runner, so no job stays Pending or
\* Processing for ever.
C31_EveryJobSettles ==
    []<>(\A j \in JobIds : pc[j] # "none" => Settled(j))

\* every runner has ended with a terminal status, after the engine was
\* reinitialized
C31_Witness ==
    /\ \A j \in JobIds : Settled(j)
    /\ pipeline = 2
====
